---- MODULE Spec2Model ----
(***************************************************************************)
(* FareLens backend: the ownership-scoped data provider (in-memory and     *)
(* relational backends) and the routes that call it.                       *)
(*                                                                         *)
(* Encoding of values.  An Optional[T] value is a set of at most one       *)
(* element: None is {} and a present value v is {v}.  UUIDs made by        *)
(* uuid4() are fresh naturals; user ids are strings.  Timestamps are       *)
(* readings of a logical clock whose unit is one day.                      *)
(***************************************************************************)
EXTENDS Integers, Sequences, FiniteSets, TLC

\* ---------------------------------------------------------------- bounds
MaxWatchlists == 1      \* create_watchlist calls per behaviour
MaxUpdates == 1         \* update_watchlist calls that write, per behaviour
MaxTicks == 1           \* advances of the clock per behaviour
MaxAlerts == 3          \* append_alert calls per behaviour
MaxPage == 3            \* largest page number requested
MaxDeals == 3           \* rows added to flight_deals per behaviour
MaxCalls == 2           \* provider calls that may be in flight together

\* ------------------------------------------------------- program constants
HTTP_200_OK == 200
HTTP_201_CREATED == 201
HTTP_204_NO_CONTENT == 204
HTTP_401_UNAUTHORIZED == 401
HTTP_403_FORBIDDEN == 403
HTTP_404_NOT_FOUND == 404
HTTP_422_UNPROCESSABLE == 422
HTTP_500_INTERNAL == 500
HTTP_501_NOT_IMPLEMENTED == 501

\* ----------------------------------------------------------------- values
None == {}
Some(v) == {v}
The(o) == CHOOSE v \in o : TRUE

AuthUsers == {"u1", "u2"}      \* subjects of verified bearer tokens
DemoUser == "demo"             \* the synthetic uuid4() owner made by _seed
DemoWatchlistId == 0
DemoDealId == 0                \* the uuid4() id of the deal made by _seed
DemoAlertId == 0               \* the uuid4() id of the alert made by _seed

VARIABLES
    use_in_memory_store,  \* settings.use_in_memory_store
    now,                  \* the clock read by _now() and by SQL NOW()
    ticks,                \* clock advances so far
    next_uuid,            \* the next value uuid4() / gen_random_uuid() gives
    updates,              \* update_watchlist calls that have written so far
    watchlists,           \* InMemoryProvider._watchlists, in insertion order
    tbl_watchlists,       \* rows of the relational table watchlists
    alerts,               \* InMemoryProvider._alerts: user id -> list
    tbl_alert_history,    \* rows of the relational table alert_history
    tbl_flight_deals,     \* rows of the relational table flight_deals
    next_alert,           \* the id the next appended alert carries
    alert_preferences,    \* InMemoryProvider._alert_preferences: user id -> prefs
    tbl_users,            \* rows of the relational table users: id -> columns
    preferred_airports,   \* InMemoryProvider._preferred_airports: user -> list
    device_tokens,        \* InMemoryProvider.device_tokens: user -> device -> token
    tbl_device_registrations, \* rows of the table device_registrations
    database_url,         \* settings.database_url
    supabase_jwt_secret,  \* settings.supabase_jwt_secret
    phase,                \* where the process is: importing, serving, stopped
    provider_cache,       \* what lru_cache holds for get_provider()
    service_account_api_key, \* settings.service_account_api_key
    calls,                \* provider calls in flight: where each one is
    pools_created,        \* how many pools asyncpg.create_pool has made
    pools_open,           \* the pools made and not closed
    readers,              \* list_alert_history calls between their queries
    deals,                \* InMemoryProvider._deals, in insertion order
    next_deal,            \* the id the next row of flight_deals carries
    pool,                 \* SupabaseProvider._pool
    last                  \* the last request and its response

watchlist_vars == <<now, ticks, next_uuid, updates, watchlists, tbl_watchlists>>
alert_vars == <<alerts, tbl_alert_history, tbl_flight_deals, next_alert>>
preference_vars == <<alert_preferences, tbl_users>>
deal_vars == <<deals, next_deal>>
device_vars == <<device_tokens, tbl_device_registrations>>
airport_vars == <<preferred_airports>>
startup_vars == <<database_url, supabase_jwt_secret, phase, provider_cache>>
pool_vars == <<calls, pools_created, pools_open>>
reader_vars == <<readers>>
service_vars == <<service_account_api_key>>

vars == <<use_in_memory_store, watchlist_vars, alert_vars, preference_vars,
          deal_vars, device_vars, airport_vars, startup_vars, pool_vars,
          reader_vars, service_vars, pool, last>>

\* ------------------------------------------------------- python helpers

\* str.upper() on the strings the requests of this model carry.
Upper(s) ==
    CASE s = "lax" -> "LAX"
      [] s = "sfo" -> "SFO"
      [] s = "any" -> "ANY"
      [] s = "laxx" -> "LAXX"
      [] OTHER -> s

\* re.match(r"^[A-Z]{3}$", s)
MatchesIata(s) == s \in {"LAX", "JFK", "SFO", "CDG", "ANY"}

\* re.match(r"^([A-Z]{3}|ANY)$", s)
MatchesIataOrAny(s) == MatchesIata(s) \/ s = "ANY"

\* sorted(s, key=lambda x: x[key], reverse=True): stable, descending.
SortedDesc(s, key) ==
    LET n == Len(s)
        pos(i) == 1 + Cardinality({j \in 1..n :
                        \/ s[j][key] > s[i][key]
                        \/ s[j][key] = s[i][key] /\ j < i})
    IN [p \in 1..n |-> s[CHOOSE i \in 1..n : pos(i) = p]]

\* s[start:end] with Python's treatment of negative and oversized indices.
PySlice(s, start, end) ==
    LET n == Len(s)
        norm(i) == IF i < 0 THEN (IF i + n < 0 THEN 0 ELSE i + n)
                   ELSE (IF i > n THEN n ELSE i)
        lo == norm(start)
        hi == norm(end)
    IN IF lo < hi THEN SubSeq(s, lo + 1, hi) ELSE <<>>

\* dict.get(key) on a dict kept as the sequence of its values (keyed by id)
DictGet(d, key) == {d[i] : i \in {j \in 1..Len(d) : d[j].id = key}}

\* d[key] = value: replaces in place, or appends a new key
DictSet(d, key, value) ==
    IF \E i \in 1..Len(d) : d[i].id = key
    THEN [i \in 1..Len(d) |-> IF d[i].id = key THEN value ELSE d[i]]
    ELSE Append(d, value)

\* d.pop(key)
DictPop(d, key) == SelectSeq(d, LAMBDA w : w.id # key)

\* ------------------------------------------------------------ schemas

UpdatableFields == <<"name", "origin", "destination", "date_range_start",
                     "date_range_end", "max_price", "is_active">>

FieldSet(seq) == {seq[i] : i \in 1..Len(seq)}

\* WatchlistCreate(**body): None when validation fails, else the payload.
\* body is the JSON object: a function from the keys it carries to values.
WatchlistCreate(body) ==
    LET has(f) == f \in DOMAIN body
        opt(f) == IF has(f) THEN body[f] ELSE None
    IN IF \/ ~has("name") \/ ~has("origin") \/ ~has("destination")
          \/ body["name"] = None \/ body["origin"] = None
          \/ body["destination"] = None
          \/ (has("is_active") /\ body["is_active"] = None)
          \/ ~MatchesIata(Upper(The(body["origin"])))
          \/ ~MatchesIataOrAny(Upper(The(body["destination"])))
       THEN None
       ELSE Some([name |-> body["name"],
                  origin |-> Some(Upper(The(body["origin"]))),
                  destination |-> Some(Upper(The(body["destination"]))),
                  date_range_start |-> opt("date_range_start"),
                  date_range_end |-> opt("date_range_end"),
                  max_price |-> opt("max_price"),
                  is_active |-> IF has("is_active") THEN body["is_active"]
                                ELSE Some(TRUE)])

\* WatchlistUpdate(**body): None when validation fails, else the payload:
\* every field (default None) and model_fields_set, the fields the body set.
WatchlistUpdate(body) ==
    LET given(f) == f \in DOMAIN body /\ body[f] # None
    IN IF \/ (given("origin") /\ ~MatchesIata(Upper(The(body["origin"]))))
          \/ (given("destination")
                /\ ~MatchesIataOrAny(Upper(The(body["destination"]))))
       THEN None
       ELSE Some([fields_set |-> DOMAIN body,
                  value |-> [f \in FieldSet(UpdatableFields) |->
                     IF ~given(f) THEN None
                     ELSE IF f \in {"origin", "destination"}
                          THEN Some(Upper(The(body[f])))
                          ELSE body[f]]])

\* payload.model_dump(exclude_unset=True): the dict of the fields that were set
model_dump(payload) == [f \in payload.fields_set |-> payload.value[f]]

\* list(d.keys()) of a dumped payload: pydantic dumps in field order
keys(d) == SelectSeq(UpdatableFields, LAMBDA f : f \in DOMAIN d)

\* Mutant: the update replaces the model: fields it does not carry are reset.
model_copy_replace(model, update) ==
    [f \in DOMAIN model |->
        IF f \in DOMAIN update THEN update[f]
        ELSE IF f \in FieldSet(UpdatableFields) THEN None ELSE model[f]]

\* model.model_copy(update=update): no validation is run
model_copy(model, update) ==
    [f \in DOMAIN model |-> IF f \in DOMAIN update THEN update[f] ELSE model[f]]

\* a | b on dicts: b's entries win
DictMerge(a, b) ==
    [f \in DOMAIN a \cup DOMAIN b |-> IF f \in DOMAIN b THEN b[f] ELSE a[f]]

\* ------------------------------------------- in-memory backend: watchlists
\* A provider operation returns [raised, ret, store]: the exception it
\* raised ("" when it returned), its return value and the store it leaves.

\* Mutant: the owner filter is dropped.
InMemoryProvider_list_watchlists_unfiltered(store, user_id) ==
    SortedDesc(store, "created_at")

InMemoryProvider_list_watchlists(store, user_id) ==
    SortedDesc(SelectSeq(store, LAMBDA w : w.user_id = user_id), "created_at")

\* Mutant: the watchlist is stored under a random owner, not the caller.
InMemoryProvider_create_watchlist_random_owner(store, uuid, t, user_id, payload) ==
    LET watchlist == [id |-> uuid,
                      user_id |-> DemoUser,
                      name |-> payload.name,
                      origin |-> Some(Upper(The(payload.origin))),
                      destination |-> Some(Upper(The(payload.destination))),
                      date_range_start |-> payload.date_range_start,
                      date_range_end |-> payload.date_range_end,
                      max_price |-> payload.max_price,
                      is_active |-> payload.is_active,
                      created_at |-> t,
                      updated_at |-> t]
    IN [raised |-> "", ret |-> Some(watchlist),
        store |-> DictSet(store, watchlist.id, watchlist)]

InMemoryProvider_create_watchlist(store, uuid, t, user_id, payload) ==
    LET watchlist == [id |-> uuid,
                      user_id |-> user_id,
                      name |-> payload.name,
                      origin |-> Some(Upper(The(payload.origin))),
                      destination |-> Some(Upper(The(payload.destination))),
                      date_range_start |-> payload.date_range_start,
                      date_range_end |-> payload.date_range_end,
                      max_price |-> payload.max_price,
                      is_active |-> payload.is_active,
                      created_at |-> t,
                      updated_at |-> t]
    IN [raised |-> "", ret |-> Some(watchlist),
        store |-> DictSet(store, watchlist.id, watchlist)]

\* Mutant: the ownership check is dropped.
InMemoryProvider_update_watchlist_no_owner_check(store, t, user_id, watchlist_id, payload) ==
    LET watchlist == DictGet(store, watchlist_id)
    IN IF watchlist = None
       THEN [raised |-> "KeyError", ret |-> None, store |-> store]
       ELSE LET update_data == model_dump(payload)
                updated == model_copy(The(watchlist),
                              DictMerge(update_data, [updated_at |-> t]))
            IN [raised |-> "", ret |-> Some(updated),
                store |-> DictSet(store, watchlist_id, updated)]

\* Mutant: a watchlist of another user is reported as forbidden, not as absent.
InMemoryProvider_update_watchlist_forbidden(store, t, user_id, watchlist_id, payload) ==
    LET watchlist == DictGet(store, watchlist_id)
    IN IF watchlist = None
       THEN [raised |-> "KeyError", ret |-> None, store |-> store]
       ELSE IF The(watchlist).user_id # user_id
       THEN [raised |-> "PermissionError", ret |-> None, store |-> store]
       ELSE LET update_data == model_dump(payload)
                updated == model_copy(The(watchlist),
                              DictMerge(update_data, [updated_at |-> t]))
            IN [raised |-> "", ret |-> Some(updated),
                store |-> DictSet(store, watchlist_id, updated)]

\* Mutant: the update rebuilds the watchlist for the caller as if new: no
\* ownership check, and user_id and created_at are assigned too
InMemoryProvider_update_watchlist_rebuild(store, t, user_id, watchlist_id, payload) ==
    LET watchlist == DictGet(store, watchlist_id)
    IN IF watchlist = None
       THEN [raised |-> "KeyError", ret |-> None, store |-> store]
       ELSE LET update_data == model_dump(payload)
                updated == model_copy(The(watchlist),
                              DictMerge(update_data,
                                        [user_id |-> user_id,
                                         created_at |-> t,
                                         updated_at |-> t]))
            IN [raised |-> "", ret |-> Some(updated),
                store |-> DictSet(store, watchlist_id, updated)]

InMemoryProvider_update_watchlist(store, t, user_id, watchlist_id, payload) ==
    LET watchlist == DictGet(store, watchlist_id)
    IN IF watchlist = None \/ The(watchlist).user_id # user_id
       THEN [raised |-> "KeyError", ret |-> None, store |-> store]
       ELSE LET update_data == model_dump(payload)
                updated == model_copy(The(watchlist),
                              DictMerge(update_data, [updated_at |-> t]))
            IN [raised |-> "", ret |-> Some(updated),
                store |-> DictSet(store, watchlist_id, updated)]

\* Mutant: a missing or foreign id raises instead of succeeding silently.
InMemoryProvider_delete_watchlist_strict(store, user_id, watchlist_id) ==
    LET watchlist == DictGet(store, watchlist_id)
    IN IF watchlist # None /\ The(watchlist).user_id = user_id
       THEN [raised |-> "", ret |-> None, store |-> DictPop(store, watchlist_id)]
       ELSE [raised |-> "KeyError", ret |-> None, store |-> store]

InMemoryProvider_delete_watchlist(store, user_id, watchlist_id) ==
    LET watchlist == DictGet(store, watchlist_id)
    IN IF watchlist # None /\ The(watchlist).user_id = user_id
       THEN [raised |-> "", ret |-> None, store |-> DictPop(store, watchlist_id)]
       ELSE [raised |-> "", ret |-> None, store |-> store]

\* ----------------------------------------- relational backend: watchlists

\* asyncpg.create_pool on first use; the pool is kept afterwards
ensure_pool(p) == IF p = None THEN Some("pool") ELSE p

ALLOWED_COLUMNS == {"name", "origin", "destination", "date_range_start",
                    "date_range_end", "max_price", "is_active"}

\* Columns of table watchlists declared NOT NULL (Watchlist's required fields).
NotNullColumns == {"name", "origin", "destination", "is_active"}

\* Column defaults of table watchlists filled in by INSERT: id, timestamps.
watchlists_defaults(uuid, t) == [id |-> uuid, created_at |-> t, updated_at |-> t]

\* The results SELECT ... ORDER BY key DESC may give: ties come in any order.
OrderByDesc(rows, key) ==
    LET n == Cardinality(rows)
    IN {s \in [1..n -> rows] :
          /\ \A i, j \in 1..n : i # j => s[i] # s[j]
          /\ \A i, j \in 1..n : i < j => s[i][key] >= s[j][key]}

\* SELECT * FROM watchlists WHERE user_id = $1 ORDER BY created_at DESC
SupabaseProvider_list_watchlists(tbl, user_id) ==
    OrderByDesc({r \in tbl : r.user_id = user_id}, "created_at")

\* INSERT INTO watchlists (...) VALUES ($1..$8) RETURNING *
SupabaseProvider_create_watchlist(tbl, uuid, t, user_id, payload) ==
    LET params == <<user_id,
                    payload.name,
                    Some(Upper(The(payload.origin))),
                    Some(Upper(The(payload.destination))),
                    payload.date_range_start,
                    payload.date_range_end,
                    payload.max_price,
                    payload.is_active>>
        row == DictMerge(watchlists_defaults(uuid, t),
                         [user_id |-> params[1],
                          name |-> params[2],
                          origin |-> params[3],
                          destination |-> params[4],
                          date_range_start |-> params[5],
                          date_range_end |-> params[6],
                          max_price |-> params[7],
                          is_active |-> params[8]])
    IN [raised |-> "", ret |-> Some(row), store |-> tbl \cup {row}]

\* update_watchlist without the branch for an empty payload: the UPDATE
\* always runs, with updated_at = NOW() as its only assignment when the
\* payload sets nothing
SupabaseProvider_update_watchlist_always(tbl, t, user_id, watchlist_id, payload) ==
    LET update_data == model_dump(payload)
        filtered_keys == SelectSeq(keys(update_data),
                                   LAMBDA k : k \in ALLOWED_COLUMNS)
        n == Len(filtered_keys)
        assignments == [i \in 1..n |->
                          [column |-> filtered_keys[i], idx |-> i + 1]]
        params == <<watchlist_id>>
                    \o [i \in 1..n |-> update_data[filtered_keys[i]]]
                    \o <<user_id>>
        set_clause == [c \in FieldSet(filtered_keys) |->
             params[assignments[CHOOSE i \in 1..n :
                                   assignments[i].column = c].idx]]
        matches(r) == r.id = params[1] /\ r.user_id = params[n + 2]
        written(r) == DictMerge(DictMerge(r, set_clause), [updated_at |-> t])
        returning == {written(r) : r \in {x \in tbl : matches(x)}}
    IN IF returning = {}
       THEN [raised |-> "KeyError", ret |-> None, store |-> tbl]
       ELSE IF \E c \in DOMAIN set_clause :
                  c \in NotNullColumns /\ set_clause[c] = None
       THEN [raised |-> "DBError", ret |-> None, store |-> tbl]
       ELSE [raised |-> "", ret |-> returning,
             store |-> {IF matches(r) THEN written(r) ELSE r : r \in tbl}]

SupabaseProvider_update_watchlist(tbl, t, user_id, watchlist_id, payload) ==
    LET update_data == model_dump(payload)
        filtered_keys == SelectSeq(keys(update_data),
                                   LAMBDA k : k \in ALLOWED_COLUMNS)
        n == Len(filtered_keys)
    IN IF n = 0
       THEN \* SELECT * FROM watchlists WHERE id = $1 AND user_id = $2
            LET found == {r \in tbl : r.id = watchlist_id /\ r.user_id = user_id}
            IN IF found = {}
               THEN [raised |-> "KeyError", ret |-> None, store |-> tbl]
               ELSE [raised |-> "", ret |-> found, store |-> tbl]
       ELSE \* UPDATE watchlists SET k = $idx, ..., updated_at = NOW()
            \* WHERE id = $1 AND user_id = $(n + 2) RETURNING *
            LET assignments == [i \in 1..n |->
                                  [column |-> filtered_keys[i], idx |-> i + 1]]
                params == <<watchlist_id>>
                            \o [i \in 1..n |-> update_data[filtered_keys[i]]]
                            \o <<user_id>>
                set_clause == [c \in FieldSet(filtered_keys) |->
                     params[assignments[CHOOSE i \in 1..n :
                                           assignments[i].column = c].idx]]
                matches(r) == r.id = params[1] /\ r.user_id = params[n + 2]
                written(r) == DictMerge(DictMerge(r, set_clause),
                                        [updated_at |-> t])
                returning == {written(r) : r \in {x \in tbl : matches(x)}}
            IN IF returning = {}
               THEN [raised |-> "KeyError", ret |-> None, store |-> tbl]
               ELSE IF \E c \in DOMAIN set_clause :
                          c \in NotNullColumns /\ set_clause[c] = None
               THEN [raised |-> "DBError", ret |-> None, store |-> tbl]
               ELSE [raised |-> "", ret |-> returning,
                     store |-> {IF matches(r) THEN written(r) ELSE r : r \in tbl}]

\* DELETE FROM watchlists WHERE id = $1 AND user_id = $2
SupabaseProvider_delete_watchlist(tbl, user_id, watchlist_id) ==
    [raised |-> "", ret |-> None,
     store |-> {r \in tbl : ~(r.id = watchlist_id /\ r.user_id = user_id)}]

\* ------------------------------------------------------------------ seed

\* InMemoryProvider._seed: the demo watchlist of a synthetic user
SeedWatchlist(t) ==
    [id |-> DemoWatchlistId,
     user_id |-> DemoUser,
     name |-> Some("LAX to JFK"),
     origin |-> Some("LAX"),
     destination |-> Some("JFK"),
     date_range_start |-> Some(t),
     date_range_end |-> Some(t + 60),
     max_price |-> Some(500),
     is_active |-> Some(TRUE),
     created_at |-> t - 2,
     updated_at |-> t - 1]

\* InMemoryProvider._seed: the demo deal, LAX to JFK with deal_score 94
SeedDeal == [id |-> DemoDealId, origin |-> "LAX", deal_score |-> 94]

\* ------------------------------------------------------------- deals

\* Mutant: the dict is not indexed by the id; its first value is returned.
InMemoryProvider_get_deal_first(store, deal_id) ==
    IF Len(store) = 0
    THEN [raised |-> "KeyError", ret |-> None]
    ELSE [raised |-> "", ret |-> Some(store[1])]

\* return self._deals[deal_id]
InMemoryProvider_get_deal(store, deal_id) ==
    IF DictGet(store, deal_id) = {}
    THEN [raised |-> "KeyError", ret |-> None]
    ELSE [raised |-> "", ret |-> DictGet(store, deal_id)]

\* list(self._deals.values()), filtered when origin is truthy, sorted by
\* deal_score descending (stable), then deals[:limit]
InMemoryProvider_list_deals(store, origin, limit) ==
    LET filtered == IF origin # None /\ The(origin) # ""
                    THEN SelectSeq(store,
                                   LAMBDA d : d.origin = Upper(The(origin)))
                    ELSE store
    IN PySlice(SortedDesc(filtered, "deal_score"), 0, limit)

\* Mutant: ORDER BY deal_score ASC.
SupabaseProvider_list_deals_ascending(tbl, origin, limit) ==
    LET param == IF origin # None /\ The(origin) # ""
                 THEN Some(Upper(The(origin))) ELSE None
        matching == {d \in tbl : param = None \/ d.origin = The(param)}
    IN IF limit < 0
       THEN {[raised |-> "DBError", ret |-> <<>>]}
       ELSE {[raised |-> "",
              ret |-> SubSeq(s, 1, IF limit < Len(s) THEN limit ELSE Len(s))] :
                s \in {[i \in 1..Len(t) |-> t[Len(t) + 1 - i]] :
                          t \in OrderByDesc(matching, "deal_score")}}

\* SELECT * FROM flight_deals WHERE ($1::text IS NULL OR origin = $1)
\* ORDER BY deal_score DESC LIMIT $2, with $1 = origin.upper() if origin else
\* None. The set of results the call may give: ties come in any order.
SupabaseProvider_list_deals(tbl, origin, limit) ==
    LET param == IF origin # None /\ The(origin) # ""
                 THEN Some(Upper(The(origin))) ELSE None
        matching == {d \in tbl : param = None \/ d.origin = The(param)}
    IN IF limit < 0
       THEN {[raised |-> "DBError", ret |-> <<>>]}
       ELSE {[raised |-> "",
              ret |-> SubSeq(s, 1, IF limit < Len(s) THEN limit ELSE Len(s))] :
                s \in OrderByDesc(matching, "deal_score")}

\* SELECT * FROM flight_deals WHERE id = $1; no row raises KeyError
SupabaseProvider_get_deal(tbl, deal_id) ==
    LET row == {d \in tbl : d.id = deal_id}
    IN IF row = {}
       THEN [raised |-> "KeyError", ret |-> None]
       ELSE [raised |-> "", ret |-> row]

\* InMemoryProvider._seed: the demo alert, sent three hours ago
SeedAlert(t) == [id |-> DemoAlertId, deal |-> DemoDealId, sent_at |-> t - 1]

\* --------------------------------------------- in-memory backend: alerts

\* dict.get(key, default) on a dict kept as a function
GetOr(d, key, default) == IF key \in DOMAIN d THEN d[key] ELSE default

\* Mutant: the slice starts one page late.
InMemoryProvider_list_alert_history_late(store, user_id, page, per_page) ==
    LET user_alerts == GetOr(store, user_id, <<>>)
        sorted == SortedDesc(user_alerts, "sent_at")
        start == page * per_page
        end == start + per_page
    IN [raised |-> "", ret |-> PySlice(sorted, start, end),
        total |-> Len(user_alerts)]

InMemoryProvider_list_alert_history(store, user_id, page, per_page) ==
    LET user_alerts == GetOr(store, user_id, <<>>)
        sorted == SortedDesc(user_alerts, "sent_at")
        start == (page - 1) * per_page
        end == start + per_page
    IN [raised |-> "", ret |-> PySlice(sorted, start, end),
        total |-> Len(user_alerts)]

\* Mutant: the appended alert replaces the user's history.
InMemoryProvider_append_alert_replace(store, user_id, alert) ==
    [raised |-> "", ret |-> None,
     store |-> IF user_id \in DOMAIN store
               THEN [store EXCEPT ![user_id] = <<alert>>]
               ELSE store @@ (user_id :> <<alert>>)]

\* Mutant: the alert is appended to every user's history.
InMemoryProvider_append_alert_shared(store, user_id, alert) ==
    [raised |-> "", ret |-> None,
     store |-> [u \in DOMAIN store \cup AuthUsers |->
                  Append(GetOr(store, u, <<>>), alert)]]

InMemoryProvider_append_alert(store, user_id, alert) ==
    LET present == IF user_id \notin DOMAIN store
                   THEN store @@ (user_id :> <<>>) ELSE store
    IN [raised |-> "", ret |-> None,
        store |-> [present EXCEPT ![user_id] = Append(@, alert)]]

\* ------------------------------------------- relational backend: alerts

\* The row append_alert inserts: the alert's columns and the owner's id
alert_history_row(user_id, alert) ==
    [id |-> alert.id, user_id |-> user_id, deal_id |-> alert.deal,
     sent_at |-> alert.sent_at]

\* _map_alert: the AlertHistory a joined row maps to
map_alert(row) == [id |-> row.id, deal |-> row.deal_id, sent_at |-> row.sent_at]

\* alert_history.deal_id references flight_deals(id)
alert_history_fk(tbl_deals, deal_id) == deal_id \in {d.id : d \in tbl_deals}

\* SELECT ... FROM alert_history a JOIN flight_deals fd ON a.deal_id = fd.id
\* WHERE a.user_id = $1 ORDER BY a.sent_at DESC LIMIT $2 OFFSET $3, then
\* SELECT COUNT(*) FROM alert_history WHERE user_id = $1.
\* The set of results the call may give: ties in sent_at come in any order,
\* and a negative LIMIT or OFFSET is an error of the database.
SupabaseProvider_list_alert_history(tbl, tbl_deals, user_id, page, per_page) ==
    LET offset == (page - 1) * per_page
        joined == {r \in tbl : /\ r.user_id = user_id
                                /\ \E fd \in tbl_deals : r.deal_id = fd.id}
        total == Cardinality({r \in tbl : r.user_id = user_id})
        limited(s) == SubSeq(s, offset + 1,
                             IF offset + per_page < Len(s)
                             THEN offset + per_page ELSE Len(s))
    IN IF per_page < 0 \/ offset < 0
       THEN {[raised |-> "DBError", ret |-> <<>>, total |-> 0]}
       ELSE {[raised |-> "",
              ret |-> [i \in 1..Len(limited(s)) |-> map_alert(limited(s)[i])],
              total |-> total] : s \in OrderByDesc(joined, "sent_at")}

\* INSERT INTO alert_history (...) VALUES ($1..$7)
SupabaseProvider_append_alert(tbl, tbl_deals, user_id, alert) ==
    IF alert_history_fk(tbl_deals, alert.deal)
    THEN [raised |-> "", ret |-> None,
          store |-> tbl \cup {alert_history_row(user_id, alert)}]
    ELSE [raised |-> "DBError", ret |-> None, store |-> tbl]

\* ------------------------------------------------- alert preferences

\* AlertPreferences(): the field defaults of the schema
AlertPreferences ==
    [enabled |-> TRUE, quiet_hours_enabled |-> TRUE, quiet_hours_start |-> 22,
     quiet_hours_end |-> 7, watchlist_only_mode |-> FALSE]

\* self._alert_preferences.get(user_id, AlertPreferences())
InMemoryProvider_get_alert_preferences(store, user_id) ==
    [raised |-> "", ret |-> GetOr(store, user_id, AlertPreferences)]

\* self._alert_preferences[user_id] = prefs; return prefs
\* Mutant: one preferences value is kept for all users.
InMemoryProvider_update_alert_preferences_global(store, user_id, prefs) ==
    [raised |-> "", ret |-> prefs, store |-> [u \in AuthUsers |-> prefs]]

InMemoryProvider_update_alert_preferences(store, user_id, prefs) ==
    [raised |-> "", ret |-> prefs,
     store |-> IF user_id \in DOMAIN store
               THEN [store EXCEPT ![user_id] = prefs]
               ELSE store @@ (user_id :> prefs)]

\* SELECT alert_enabled, ... FROM users WHERE id = $1; no row reads as defaults
SupabaseProvider_get_alert_preferences(tbl, user_id) ==
    IF user_id \notin DOMAIN tbl
    THEN [raised |-> "", ret |-> AlertPreferences]
    ELSE LET row == tbl[user_id]
         IN [raised |-> "",
             ret |-> [enabled |-> row.alert_enabled,
                      quiet_hours_enabled |-> row.quiet_hours_enabled,
                      quiet_hours_start |-> row.quiet_hours_start,
                      quiet_hours_end |-> row.quiet_hours_end,
                      watchlist_only_mode |-> row.watchlist_only_mode]]

\* UPDATE users SET alert_enabled = $2, ..., updated_at = NOW() WHERE id = $1;
\* the statement changes the rows that match, and returns prefs either way
SupabaseProvider_update_alert_preferences(tbl, t, user_id, prefs) ==
    [raised |-> "", ret |-> prefs,
     store |-> [id \in DOMAIN tbl |->
                  IF id = user_id
                  THEN [tbl[id] EXCEPT
                          !.alert_enabled = prefs.enabled,
                          !.quiet_hours_enabled = prefs.quiet_hours_enabled,
                          !.quiet_hours_start = prefs.quiet_hours_start,
                          !.quiet_hours_end = prefs.quiet_hours_end,
                          !.watchlist_only_mode = prefs.watchlist_only_mode,
                          !.updated_at = t]
                  ELSE tbl[id]]]

\* The row of public.users a sign-up makes: the columns at their defaults
users_defaults(t) ==
    [alert_enabled |-> AlertPreferences.enabled,
     quiet_hours_enabled |-> AlertPreferences.quiet_hours_enabled,
     quiet_hours_start |-> AlertPreferences.quiet_hours_start,
     quiet_hours_end |-> AlertPreferences.quiet_hours_end,
     watchlist_only_mode |-> AlertPreferences.watchlist_only_mode,
     preferred_airports |-> <<>>,
     updated_at |-> t]

\* ------------------------------------------------ preferred airports

\* PreferredAirportsUpdate: each iata is validated against ^[A-Z]{3}$ after
\* upper-casing and kept upper-cased; None when validation fails
PreferredAirportsUpdate(body) ==
    IF \A i \in 1..Len(body) : MatchesIata(Upper(body[i].iata))
    THEN Some([i \in 1..Len(body) |->
                 [iata |-> Upper(body[i].iata), weight |-> body[i].weight]])
    ELSE None

\* [{"iata": item.iata.upper(), "weight": item.weight} for item in ...]
airports_list(payload) ==
    [i \in 1..Len(payload) |->
        [iata |-> Upper(payload[i].iata), weight |-> payload[i].weight]]

\* self._preferred_airports[user_id] = airports_list
InMemoryProvider_update_preferred_airports(store, user_id, payload) ==
    [raised |-> "",
     ret |-> [status |-> "updated",
              preferred_airports |-> Some(airports_list(payload))],
     store |-> IF user_id \in DOMAIN store
               THEN [store EXCEPT ![user_id] = airports_list(payload)]
               ELSE store @@ (user_id :> airports_list(payload))]

\* UPDATE users SET preferred_airports = $2::jsonb, updated_at = NOW()
\* WHERE id = $1; {"status": "updated"} is returned whatever rows matched
SupabaseProvider_update_preferred_airports(tbl, t, user_id, payload) ==
    [raised |-> "",
     ret |-> [status |-> "updated", preferred_airports |-> None],
     store |-> [id \in DOMAIN tbl |->
                  IF id = user_id
                  THEN [tbl[id] EXCEPT
                          !.preferred_airports = airports_list(payload),
                          !.updated_at = t]
                  ELSE tbl[id]]]

\* ---------------------------------------------------- device tokens

\* self.device_tokens[user_id][device_id] = token, making the user's dict first
\* when it is missing; platform is not used
InMemoryProvider_register_device_token(store, user_id, device_id, token, platform) ==
    LET present == IF user_id \notin DOMAIN store
                   THEN store @@ (user_id :> <<>>) ELSE store
        mine == present[user_id]
    IN [raised |-> "", ret |-> None,
        store |-> [present EXCEPT ![user_id] =
                      IF device_id \in DOMAIN mine
                      THEN [mine EXCEPT ![device_id] = token]
                      ELSE mine @@ (device_id :> token)]]

\* INSERT INTO device_registrations (...) VALUES ($1, $2, $3, $4, NOW(), NOW(),
\* NOW()) ON CONFLICT (user_id, device_id) DO UPDATE SET apns_token, platform,
\* updated_at, last_active_at
SupabaseProvider_register_device_token(tbl, t, user_id, device_id, token, platform) ==
    LET conflict == {r \in tbl : r.user_id = user_id /\ r.device_id = device_id}
        inserted == [user_id |-> user_id, device_id |-> device_id,
                     apns_token |-> token, platform |-> platform,
                     created_at |-> t, updated_at |-> t, last_active_at |-> t]
    IN [raised |-> "", ret |-> None,
        store |-> IF conflict = {}
                  THEN tbl \cup {inserted}
                  ELSE (tbl \ conflict) \cup
                       {[r EXCEPT !.apns_token = token, !.platform = platform,
                                  !.updated_at = t, !.last_active_at = t] :
                           r \in conflict}]

\* DeviceRegistrationRequest: device_id must parse as a UUID
DeviceRegistrationRequest(body) ==
    IF body.device_id \in {"d1", "d2"} THEN Some(body) ELSE None

\* DeviceRegistrationResponse(**kw): registered and device_id are required,
\* keywords that are not fields are ignored; None when validation fails
DeviceRegistrationResponse(kw) ==
    IF {"registered", "device_id"} \subseteq DOMAIN kw
    THEN Some([registered |-> kw.registered, device_id |-> kw.device_id])
    ELSE None

\* ------------------------------------------------------ request bodies

\* JSON bodies sent to POST /v1/watchlists
CreateBodies ==
    { [name |-> Some("Test"), origin |-> Some("sfo"), destination |-> Some("any"),
       max_price |-> Some(750), is_active |-> Some(TRUE)],
      [name |-> Some("Bad"), origin |-> Some("laxx"), destination |-> Some("JFK")] }

\* JSON bodies sent to PUT /v1/watchlists/{id}
UpdateBodies ==
    { [f \in {} |-> None],
      [max_price |-> Some(700), is_active |-> Some(FALSE)],
      [max_price |-> None, origin |-> Some("sfo")],
      [destination |-> Some("laxx")] }

WatchlistIds == 0..MaxWatchlists

\* ------------------------------------------------------------------ state

\* The provider calls of one process, and a call that has not started
Calls == 1..MaxCalls
IdleCall == [pc |-> "idle", op |-> "", pool |-> None, conn |-> 0,
             outcome |-> ""]

NoRequest == [op |-> "none", user |-> "", wid |-> 0, status |-> 0,
              detail |-> "", payload |-> None, ret |-> None]

\* The stores as the providers' constructors leave them
InitWatchlistStores ==
    /\ watchlists = IF use_in_memory_store THEN <<SeedWatchlist(now)>> ELSE <<>>
    /\ tbl_watchlists = IF use_in_memory_store THEN {} ELSE {SeedWatchlist(now)}

\* The clock, the counters and every store but the watchlists
InitOtherStores ==
    /\ use_in_memory_store \in BOOLEAN
    /\ now = 2
    /\ ticks = 0
    /\ next_uuid = 1
    /\ updates = 0
    /\ alerts = IF use_in_memory_store THEN DemoUser :> <<SeedAlert(now)>>
                ELSE <<>>
    /\ tbl_alert_history =
          IF use_in_memory_store THEN {}
          ELSE {alert_history_row(DemoUser, SeedAlert(now))}
    /\ tbl_flight_deals = IF use_in_memory_store THEN {} ELSE {SeedDeal}
    /\ deals = IF use_in_memory_store THEN <<SeedDeal>> ELSE <<>>
    /\ next_deal = 1
    /\ preferred_airports = <<>>
    /\ device_tokens = <<>>
    /\ tbl_device_registrations = {}
    /\ next_alert = 1
    /\ alert_preferences = <<>>
    /\ tbl_users = <<>>
    /\ pool = None
    /\ calls = [c \in Calls |-> IdleCall]
    /\ pools_created = 0
    /\ pools_open = {}
    /\ readers = {}
    /\ provider_cache = None
    /\ last = NoRequest

InitStores == InitOtherStores /\ InitWatchlistStores

\* A process that serves requests, configured for the backend it selects
Init ==
    /\ InitStores
    /\ database_url = IF use_in_memory_store THEN None
                      ELSE Some("postgresql://db")
    /\ supabase_jwt_secret = Some("secret")
    /\ service_account_api_key = None
    /\ phase = "serving"

\* The store of the active provider
Store == IF use_in_memory_store THEN watchlists ELSE tbl_watchlists

\* The active provider ran an operation and left store s
ProviderRan(s) ==
    IF use_in_memory_store
    THEN /\ watchlists' = s
         /\ UNCHANGED <<tbl_watchlists, pool>>
    ELSE /\ tbl_watchlists' = s
         /\ pool' = ensure_pool(pool)
         /\ UNCHANGED watchlists

\* Time passes between requests
Tick ==
    /\ ticks < MaxTicks
    /\ now' = now + 1
    /\ ticks' = ticks + 1
    /\ UNCHANGED <<use_in_memory_store, next_uuid, updates, watchlists, tbl_watchlists,
                   pool, last>>

\* ----------------------------------------------------------------- routes

\* An exception no handler catches becomes the server's 500 response
Unhandled == [status |-> HTTP_500_INTERNAL, detail |-> "Internal Server Error"]

\* Mutant: the KeyError is swallowed and the request answered as a success.
update_watchlist_response_swallow(raised) ==
    IF raised = "KeyError" \/ raised = ""
    THEN [status |-> HTTP_200_OK, detail |-> ""]
    ELSE Unhandled

\* update_watchlist's try/except: KeyError becomes HTTPException(404)
update_watchlist_response(raised) ==
    IF raised = "KeyError"
    THEN [status |-> HTTP_404_NOT_FOUND, detail |-> "Watchlist not found"]
    ELSE IF raised = "" THEN [status |-> HTTP_200_OK, detail |-> ""]
    ELSE Unhandled

\* delete_watchlist: status_code=204, no exception is caught
delete_watchlist_response(raised) ==
    IF raised = "" THEN [status |-> HTTP_204_NO_CONTENT, detail |-> ""]
    ELSE Unhandled

\* GET /v1/watchlists
route_list_watchlists(user_id) ==
    /\ \E ret \in IF use_in_memory_store
                  THEN {InMemoryProvider_list_watchlists(watchlists, user_id)}
                  ELSE SupabaseProvider_list_watchlists(tbl_watchlists, user_id) :
          last' = [op |-> "list_watchlists", user |-> user_id, wid |-> 0,
                   status |-> HTTP_200_OK, detail |-> "", payload |-> None,
                   ret |-> ret]
    /\ ProviderRan(Store)
    /\ UNCHANGED <<use_in_memory_store, now, ticks, next_uuid, updates>>

\* POST /v1/watchlists
route_create_watchlist(user_id, body) ==
    LET payload == WatchlistCreate(body)
    IN IF payload = None
       THEN /\ last' = [op |-> "create_watchlist", user |-> user_id, wid |-> 0,
                        status |-> HTTP_422_UNPROCESSABLE,
                        detail |-> "validation error", payload |-> None,
                        ret |-> None]
            /\ UNCHANGED <<use_in_memory_store, now, ticks, next_uuid, updates,
                           watchlists, tbl_watchlists, pool>>
       ELSE LET r == IF use_in_memory_store
                     THEN InMemoryProvider_create_watchlist(
                              watchlists, next_uuid, now, user_id, The(payload))
                     ELSE SupabaseProvider_create_watchlist(
                              tbl_watchlists, next_uuid, now, user_id, The(payload))
            IN /\ next_uuid <= MaxWatchlists
               /\ next_uuid' = next_uuid + 1
               /\ ProviderRan(r.store)
               /\ last' = [op |-> "create_watchlist", user |-> user_id,
                           wid |-> The(r.ret).id, status |-> HTTP_201_CREATED,
                           detail |-> "", payload |-> payload, ret |-> r.ret]
               /\ UNCHANGED <<use_in_memory_store, now, ticks, updates>>

\* PUT /v1/watchlists/{watchlist_id}
route_update_watchlist(user_id, watchlist_id, body) ==
    LET payload == WatchlistUpdate(body)
    IN IF payload = None
       THEN /\ last' = [op |-> "update_watchlist", user |-> user_id,
                        wid |-> watchlist_id, status |-> HTTP_422_UNPROCESSABLE,
                        detail |-> "validation error", payload |-> None,
                        ret |-> None]
            /\ UNCHANGED <<use_in_memory_store, now, ticks, next_uuid, updates,
                           watchlists, tbl_watchlists, pool>>
       ELSE LET r == IF use_in_memory_store
                     THEN InMemoryProvider_update_watchlist(
                              watchlists, now, user_id, watchlist_id, The(payload))
                     ELSE SupabaseProvider_update_watchlist(
                              tbl_watchlists, now, user_id, watchlist_id, The(payload))
            IN /\ r.raised = "" => updates < MaxUpdates
               /\ updates' = IF r.raised = "" THEN updates + 1 ELSE updates
               /\ ProviderRan(r.store)
               /\ last' = [op |-> "update_watchlist", user |-> user_id,
                           wid |-> watchlist_id,
                           status |-> update_watchlist_response(r.raised).status,
                           detail |-> update_watchlist_response(r.raised).detail,
                           payload |-> payload, ret |-> r.ret]
               /\ UNCHANGED <<use_in_memory_store, now, ticks, next_uuid>>

\* DELETE /v1/watchlists/{watchlist_id}
route_delete_watchlist(user_id, watchlist_id) ==
    LET r == IF use_in_memory_store
             THEN InMemoryProvider_delete_watchlist(watchlists, user_id, watchlist_id)
             ELSE SupabaseProvider_delete_watchlist(tbl_watchlists, user_id,
                                                    watchlist_id)
    IN /\ ProviderRan(r.store)
       /\ last' = [op |-> "delete_watchlist", user |-> user_id,
                   wid |-> watchlist_id,
                   status |-> delete_watchlist_response(r.raised).status,
                   detail |-> delete_watchlist_response(r.raised).detail,
                   payload |-> None, ret |-> None]
       /\ UNCHANGED <<use_in_memory_store, now, ticks, next_uuid, updates>>

NextWatchlists ==
  /\ UNCHANGED <<alert_vars, preference_vars, deal_vars, device_vars,
                 airport_vars, startup_vars, pool_vars, reader_vars,
                 service_vars>>
  /\
    \/ Tick
    \/ \E u \in AuthUsers : route_list_watchlists(u)
    \/ \E u \in AuthUsers, b \in CreateBodies : route_create_watchlist(u, b)
    \/ \E u \in AuthUsers, w \in WatchlistIds, b \in UpdateBodies :
          route_update_watchlist(u, w, b)
    \/ \E u \in AuthUsers, w \in WatchlistIds : route_delete_watchlist(u, w)

SpecWatchlists == Init /\ [][NextWatchlists]_vars

\* ------------------------------------------------------- alert routes

\* Query parameters sent to GET /v1/alerts/history
PageValues == (-1)..MaxPage
PerPageValues == {0, 1, 2, 101}

\* GET /v1/alerts/history: page and per_page are plain ints, passed on as sent
get_history(user_id, page, per_page) ==
    /\ \E r \in IF use_in_memory_store
                THEN {InMemoryProvider_list_alert_history(
                          alerts, user_id, page, per_page)}
                ELSE SupabaseProvider_list_alert_history(
                          tbl_alert_history, tbl_flight_deals, user_id, page,
                          per_page) :
          last' = [op |-> "list_alert_history", user |-> user_id,
                   page |-> page, per_page |-> per_page,
                   provider_called |-> TRUE,
                   status |-> IF r.raised = "" THEN HTTP_200_OK
                              ELSE HTTP_500_INTERNAL,
                   ret |-> r.ret, total |-> r.total]
    /\ pool' = IF use_in_memory_store THEN pool ELSE ensure_pool(pool)
    /\ UNCHANGED <<use_in_memory_store, watchlist_vars, alert_vars,
                   preference_vars>>

\* provider.append_alert(user_id, alert): called by the alerting job, no route
append_alert(user_id, alert) ==
    LET r == IF use_in_memory_store
             THEN InMemoryProvider_append_alert(alerts, user_id, alert)
             ELSE SupabaseProvider_append_alert(
                      tbl_alert_history, tbl_flight_deals, user_id, alert)
    IN /\ next_alert <= MaxAlerts
       /\ alert.id = next_alert
       /\ next_alert' = next_alert + 1
       /\ IF use_in_memory_store
          THEN alerts' = r.store /\ UNCHANGED <<tbl_alert_history, pool>>
          ELSE tbl_alert_history' = r.store /\ pool' = ensure_pool(pool)
                 /\ UNCHANGED alerts
       /\ last' = [op |-> "append_alert", user |-> user_id, alert |-> alert,
                   raised |-> r.raised]
       /\ UNCHANGED <<use_in_memory_store, watchlist_vars, tbl_flight_deals,
                      preference_vars>>

\* The alerts a caller may append: a fresh id, a known or an unknown deal
AlertValues ==
    {[id |-> next_alert, deal |-> DemoDealId, sent_at |-> t] :
        t \in {now - 1, now}}
    \cup {[id |-> next_alert, deal |-> DemoDealId + 1, sent_at |-> now]}

NextAlerts ==
  /\ UNCHANGED <<deal_vars, device_vars, airport_vars, startup_vars,
                 pool_vars, reader_vars, service_vars>>
  /\
    \/ \E u \in AuthUsers, p \in PageValues, k \in PerPageValues :
          get_history(u, p, k)
    \/ \E u \in AuthUsers, a \in AlertValues : append_alert(u, a)

SpecAlerts == Init /\ [][NextAlerts]_vars

\* -------------------------------------------------- preference routes

\* Bodies sent to PUT /v1/alert-preferences
PreferenceBodies ==
    {AlertPreferences,
     [AlertPreferences EXCEPT !.enabled = FALSE],
     [AlertPreferences EXCEPT !.quiet_hours_start = 23, !.quiet_hours_end = 6],
     [AlertPreferences EXCEPT !.quiet_hours_enabled = FALSE,
                              !.watchlist_only_mode = TRUE]}

\* PUT /v1/alert-preferences
update_alert_preferences(user_id, payload) ==
    LET r == IF use_in_memory_store
             THEN InMemoryProvider_update_alert_preferences(
                      alert_preferences, user_id, payload)
             ELSE SupabaseProvider_update_alert_preferences(
                      tbl_users, now, user_id, payload)
    IN /\ IF use_in_memory_store
          THEN alert_preferences' = r.store /\ UNCHANGED <<tbl_users, pool>>
          ELSE tbl_users' = r.store /\ pool' = ensure_pool(pool)
                 /\ UNCHANGED alert_preferences
       /\ last' = [op |-> "update_alert_preferences", user |-> user_id,
                   prefs |-> payload, status |-> HTTP_200_OK, ret |-> r.ret]
       /\ UNCHANGED <<use_in_memory_store, watchlist_vars, alert_vars>>

\* provider.get_alert_preferences(user_id): read by the alerting job, no route
get_alert_preferences(user_id) ==
    LET r == IF use_in_memory_store
             THEN InMemoryProvider_get_alert_preferences(
                      alert_preferences, user_id)
             ELSE SupabaseProvider_get_alert_preferences(tbl_users, user_id)
    IN /\ last' = [op |-> "get_alert_preferences", user |-> user_id,
                   ret |-> r.ret]
       /\ pool' = IF use_in_memory_store THEN pool ELSE ensure_pool(pool)
       /\ UNCHANGED <<use_in_memory_store, watchlist_vars, alert_vars,
                      preference_vars>>

\* A row of public.users comes to exist for an authenticated id (the sign-up
\* is outside this service; get_alert_preferences handles both cases)
user_row_created(user_id) ==
    /\ ~use_in_memory_store
    /\ user_id \notin DOMAIN tbl_users
    /\ tbl_users' = tbl_users @@ (user_id :> users_defaults(now))
    /\ last' = [op |-> "user_row_created", user |-> user_id]
    /\ UNCHANGED <<use_in_memory_store, watchlist_vars, alert_vars,
                   alert_preferences, pool>>

NextPreferences ==
  /\ UNCHANGED <<deal_vars, device_vars, airport_vars, startup_vars,
                 pool_vars, reader_vars, service_vars>>
  /\
    \/ \E u \in AuthUsers, b \in PreferenceBodies :
          update_alert_preferences(u, b)
    \/ \E u \in AuthUsers : get_alert_preferences(u)
    \/ \E u \in AuthUsers : user_row_created(u)

SpecPreferences == Init /\ [][NextPreferences]_vars

\* -------------------------------------------------------- deal routes

\* Query parameters sent to GET /v1/deals
OriginValues == {None, Some(""), Some("lax"), Some("SFO")}
LimitValues == {0, 1, 2, 100, 101}

\* limit: int = Query(20, ge=1, le=100)
limit_valid(limit) == limit >= 1 /\ limit <= 100

\* GET /v1/deals
list_deals(origin, limit) ==
    /\ IF ~limit_valid(limit)
       THEN /\ last' = [op |-> "list_deals", origin |-> origin,
                        limit |-> limit, provider_called |-> FALSE,
                        status |-> HTTP_422_UNPROCESSABLE, ret |-> <<>>]
            /\ UNCHANGED pool
       ELSE /\ \E r \in IF use_in_memory_store
                        THEN {[raised |-> "",
                               ret |-> InMemoryProvider_list_deals(
                                           deals, origin, limit)]}
                        ELSE SupabaseProvider_list_deals(
                                 tbl_flight_deals, origin, limit) :
                  last' = [op |-> "list_deals", origin |-> origin,
                           limit |-> limit, provider_called |-> TRUE,
                           status |-> IF r.raised = "" THEN HTTP_200_OK
                                      ELSE HTTP_500_INTERNAL,
                           ret |-> r.ret]
            /\ pool' = IF use_in_memory_store THEN pool ELSE ensure_pool(pool)
    /\ UNCHANGED <<use_in_memory_store, watchlist_vars, alert_vars,
                   preference_vars, deal_vars>>

\* The response of GET /v1/deals/{deal_id}: KeyError becomes 404
get_deal_response(deal_id) ==
    LET r == IF use_in_memory_store
             THEN InMemoryProvider_get_deal(deals, deal_id)
             ELSE SupabaseProvider_get_deal(tbl_flight_deals, deal_id)
    IN IF r.raised = "KeyError"
       THEN [status |-> HTTP_404_NOT_FOUND, detail |-> "Deal not found",
             ret |-> None]
       ELSE [status |-> HTTP_200_OK, detail |-> "", ret |-> r.ret]

\* GET /v1/deals/{deal_id}
get_deal(deal_id) ==
    /\ last' = [op |-> "get_deal", deal_id |-> deal_id,
                status |-> get_deal_response(deal_id).status,
                detail |-> get_deal_response(deal_id).detail,
                ret |-> get_deal_response(deal_id).ret]
    /\ pool' = IF use_in_memory_store THEN pool ELSE ensure_pool(pool)
    /\ UNCHANGED <<use_in_memory_store, watchlist_vars, alert_vars,
                   preference_vars, deal_vars>>

\* A row is added to flight_deals by the ingestion that feeds the database;
\* the in-memory backend has no operation that adds a deal
deal_ingested(origin, deal_score) ==
    /\ ~use_in_memory_store
    /\ next_deal <= MaxDeals
    /\ tbl_flight_deals' = tbl_flight_deals \cup
          {[id |-> next_deal, origin |-> origin, deal_score |-> deal_score]}
    /\ next_deal' = next_deal + 1
    /\ last' = [op |-> "deal_ingested", deal_id |-> next_deal]
    /\ UNCHANGED <<use_in_memory_store, watchlist_vars, alerts,
                   tbl_alert_history, next_alert, preference_vars, deals, pool>>

DealIds == 0..(MaxDeals + 1)

NextDeals ==
  /\ UNCHANGED <<device_vars, airport_vars, startup_vars, pool_vars,
                 reader_vars, service_vars>>
  /\
    \/ \E o \in OriginValues, l \in LimitValues : list_deals(o, l)
    \/ \E id \in DealIds : get_deal(id)
    \/ \E o \in {"LAX", "SFO"}, s \in {94, 80} : deal_ingested(o, s)

SpecDeals == Init /\ [][NextDeals]_vars

\* ----------------------------------------------------- airport routes

\* Bodies sent to PUT /v1/alert-preferences/airports (weights in tenths)
AirportBodies ==
    {<<[iata |-> "lax", weight |-> 6], [iata |-> "JFK", weight |-> 4]>>,
     <<[iata |-> "SFO", weight |-> 10]>>,
     <<>>,
     <<[iata |-> "laxx", weight |-> 10]>>}

\* PUT /v1/alert-preferences/airports
update_airport_weights(user_id, body) ==
    LET payload == PreferredAirportsUpdate(body)
        r == IF use_in_memory_store
             THEN InMemoryProvider_update_preferred_airports(
                      preferred_airports, user_id, The(payload))
             ELSE SupabaseProvider_update_preferred_airports(
                      tbl_users, now, user_id, The(payload))
    IN /\ IF payload = None
          THEN /\ last' = [op |-> "update_preferred_airports",
                           user |-> user_id, body |-> body,
                           provider_called |-> FALSE,
                           status |-> HTTP_422_UNPROCESSABLE]
               /\ UNCHANGED <<preferred_airports, tbl_users, pool>>
          ELSE /\ IF use_in_memory_store
                  THEN /\ preferred_airports' = r.store
                       /\ UNCHANGED <<tbl_users, pool>>
                  ELSE /\ tbl_users' = r.store
                       /\ pool' = ensure_pool(pool)
                       /\ UNCHANGED preferred_airports
               /\ last' = [op |-> "update_preferred_airports",
                           user |-> user_id, body |-> body,
                           provider_called |-> TRUE,
                           status |-> HTTP_200_OK, ret |-> r.ret]
       /\ UNCHANGED <<use_in_memory_store, watchlist_vars, alert_vars,
                      alert_preferences, deal_vars, device_vars>>

NextAirports ==
  /\ UNCHANGED <<startup_vars, pool_vars, reader_vars, service_vars>>
  /\
    \/ \E u \in AuthUsers, b \in AirportBodies : update_airport_weights(u, b)
    \/ \E u \in AuthUsers :
          user_row_created(u) /\ UNCHANGED <<deal_vars, device_vars,
                                             airport_vars>>

SpecAirports == Init /\ [][NextAirports]_vars

\* ------------------------------------------------------ device routes

\* Bodies sent to POST /v1/alerts/register
DeviceBodies ==
    {[device_id |-> d, token |-> t, platform |-> p] :
        d \in {"d1", "d2"}, t \in {"t1", "t2"}, p \in {"ios", "android"}}
    \cup {[device_id |-> "not-a-uuid", token |-> "t1", platform |-> "ios"]}

\* POST /v1/alerts/register: the token is stored, then the response is built
register_device(user_id, body) ==
    LET payload == DeviceRegistrationRequest(body)
        p == The(payload)
        r == IF use_in_memory_store
             THEN InMemoryProvider_register_device_token(
                      device_tokens, user_id, p.device_id, p.token, p.platform)
             ELSE SupabaseProvider_register_device_token(
                      tbl_device_registrations, now, user_id, p.device_id,
                      p.token, p.platform)
        response == DeviceRegistrationResponse(
                        [status |-> "registered",
                         message |-> "Device token saved"])
    IN /\ IF payload = None
          THEN /\ last' = [op |-> "register_device", user |-> user_id,
                           body |-> body, provider_called |-> FALSE,
                           status |-> HTTP_422_UNPROCESSABLE,
                           response |-> None]
               /\ UNCHANGED <<device_vars, pool>>
          ELSE /\ IF use_in_memory_store
                  THEN /\ device_tokens' = r.store
                       /\ UNCHANGED <<tbl_device_registrations, pool>>
                  ELSE /\ tbl_device_registrations' = r.store
                       /\ pool' = ensure_pool(pool)
                       /\ UNCHANGED device_tokens
               /\ last' = [op |-> "register_device", user |-> user_id,
                           body |-> body, provider_called |-> TRUE,
                           status |-> IF response = None
                                      THEN HTTP_500_INTERNAL
                                      ELSE HTTP_201_CREATED,
                           response |-> response]
       /\ UNCHANGED <<use_in_memory_store, watchlist_vars, alert_vars,
                      preference_vars, deal_vars>>

NextDevices ==
    /\ UNCHANGED <<airport_vars, startup_vars, pool_vars, reader_vars,
                   service_vars>>
    /\ \E u \in AuthUsers, b \in DeviceBodies : register_device(u, b)

SpecDevices == Init /\ [][NextDevices]_vars

\* ------------------------------------------- provider classes, startup

\* The operations DataProvider declares with @abstractmethod
DataProvider_abstractmethods ==
    {"list_deals", "get_deal", "list_watchlists", "create_watchlist",
     "update_watchlist", "delete_watchlist", "list_alert_history",
     "append_alert", "get_alert_preferences", "update_alert_preferences",
     "update_preferred_airports", "register_device_token", "get_user",
     "update_user"}

\* The methods class InMemoryProvider defines
InMemoryProvider_methods ==
    {"__init__", "_seed", "list_deals", "get_deal", "list_watchlists",
     "create_watchlist", "update_watchlist", "delete_watchlist",
     "list_alert_history", "append_alert", "get_alert_preferences",
     "update_alert_preferences", "update_preferred_airports",
     "register_device_token"}

\* The methods class SupabaseProvider defines
SupabaseProvider_methods ==
    {"__init__", "_ensure_pool", "close", "list_deals", "get_deal",
     "list_watchlists", "create_watchlist", "update_watchlist",
     "delete_watchlist", "list_alert_history", "append_alert",
     "get_alert_preferences", "update_alert_preferences",
     "update_preferred_airports", "register_device_token", "_map_deal",
     "_map_watchlist", "_map_alert"}

ProviderClasses == {"InMemoryProvider", "SupabaseProvider"}

Methods(cls) ==
    IF cls = "InMemoryProvider" THEN InMemoryProvider_methods
    ELSE SupabaseProvider_methods

\* cls(): a subclass of an ABC that leaves an abstract method undefined
\* cannot be instantiated
Instantiate(cls) ==
    IF DataProvider_abstractmethods \subseteq Methods(cls)
    THEN "" ELSE "TypeError"

\* provider.op: attribute lookup on an object of class cls
Lookup(cls, op) == IF op \in Methods(cls) THEN "" ELSE "AttributeError"

\* get_provider(): the cached provider, else the class the settings select;
\* a relational selection without a database URL raises RuntimeError
get_provider ==
    IF provider_cache # None
    THEN [raised |-> "", provider |-> provider_cache]
    ELSE IF use_in_memory_store
    THEN [raised |-> "", provider |-> Some("InMemoryProvider")]
    ELSE IF database_url = None
    THEN [raised |-> "RuntimeError", provider |-> None]
    ELSE [raised |-> "", provider |-> Some("SupabaseProvider")]

\* ------------------------------------------------------ authentication

\* Authorization headers: none, or a bearer token signed with some key
\* whose claims may hold sub
Credentials ==
    {None}
    \cup {Some([key |-> "secret", sub |-> Some(u)]) : u \in AuthUsers}
    \cup {Some([key |-> "other", sub |-> Some("u1")]),
          Some([key |-> "secret", sub |-> None]),
          Some([key |-> "secret", sub |-> Some("not-a-uuid")])}

\* UUID(s) succeeds
IsUuid(s) == s \in AuthUsers

\* Mutant: the token's signature is not verified.
decode_jwt_unverified(token) ==
    IF token.sub = None
    THEN [status |-> HTTP_401_UNAUTHORIZED, payload |-> None]
    ELSE [status |-> 0, payload |-> Some([sub |-> The(token.sub)])]

\* decode_jwt: 500 without a configured secret, 401 when jwt.decode rejects
\* the token or the payload has no sub, else the payload
decode_jwt(token) ==
    IF supabase_jwt_secret = None
    THEN [status |-> HTTP_500_INTERNAL, payload |-> None]
    ELSE IF token.key # The(supabase_jwt_secret)
    THEN [status |-> HTTP_401_UNAUTHORIZED, payload |-> None]
    ELSE IF token.sub = None
    THEN [status |-> HTTP_401_UNAUTHORIZED, payload |-> None]
    ELSE [status |-> 0, payload |-> Some([sub |-> The(token.sub)])]

\* The statuses HTTPBearer() may give a request without bearer credentials:
\* 403 or 401, by the version of the framework
HTTPBearer_rejections == {HTTP_403_FORBIDDEN, HTTP_401_UNAUTHORIZED}

\* get_current_user_id on credentials HTTPBearer accepted
get_current_user_id(token) ==
    LET decoded == decode_jwt(token)
    IN IF decoded.status # 0
       THEN [status |-> decoded.status, user_id |-> None]
       ELSE IF ~IsUuid(The(decoded.payload).sub)
       THEN [status |-> HTTP_401_UNAUTHORIZED, user_id |-> None]
       ELSE [status |-> 0, user_id |-> Some(The(decoded.payload).sub)]

\* The routes on per-user data and the provider operation each one calls
UserRoutes ==
    [list_watchlists |-> "list_watchlists",
     create_watchlist |-> "create_watchlist",
     update_watchlist |-> "update_watchlist",
     delete_watchlist |-> "delete_watchlist",
     register_device |-> "register_device_token",
     get_history |-> "list_alert_history",
     update_alert_preferences |-> "update_alert_preferences",
     update_airport_weights |-> "update_preferred_airports"]

\* Mutant: the user id is taken from the request.
route_user_id_from_request(auth_user_id, client_user_id) == client_user_id

\* user_id=user_id: the id a route passes to the provider is the one its
\* get_current_user_id dependency gave
route_user_id(auth_user_id, client_user_id) == auth_user_id

\* A request to a route on per-user data, with the Authorization header it
\* carries and a user id the client put in its body, path or query: the
\* dependencies run in order (bearer scheme, token, provider), then the route
\* calls its provider operation
authenticated_request(route, credentials, client_user_id) ==
    LET auth == get_current_user_id(The(credentials))
        provided == get_provider
        rejected(status) ==
            [op |-> "request", route |-> route, credentials |-> credentials,
             client_user_id |-> client_user_id, rejected |-> status,
             provider_called |-> FALSE, passed_user |-> None]
    IN /\ phase = "serving"
       /\ IF credentials = None
          THEN /\ \E s \in HTTPBearer_rejections : last' = rejected(s)
               /\ UNCHANGED provider_cache
          ELSE IF auth.status # 0
          THEN /\ last' = rejected(auth.status)
               /\ UNCHANGED provider_cache
          ELSE IF provided.raised # ""
          THEN /\ last' = rejected(HTTP_500_INTERNAL)
               /\ UNCHANGED provider_cache
          ELSE /\ provider_cache' = provided.provider
               /\ last' = [op |-> "request", route |-> route,
                           credentials |-> credentials,
                           client_user_id |-> client_user_id,
                           rejected |-> 0,
                           provider_called |->
                               Lookup(The(provided.provider),
                                      UserRoutes[route]) = "",
                           passed_user |->
                               Some(route_user_id(The(auth.user_id),
                                                  client_user_id))]
       /\ UNCHANGED <<use_in_memory_store, watchlist_vars, alert_vars,
                      preference_vars, deal_vars, device_vars, airport_vars,
                      database_url, supabase_jwt_secret, phase, pool>>

\* GET /health: provider = get_provider(); await provider.health_check()
health ==
    LET provided == get_provider
        raised == IF provided.raised # "" THEN provided.raised
                  ELSE Lookup(The(provided.provider), "health_check")
    IN /\ phase = "serving"
       /\ provider_cache' = provided.provider
       /\ last' = [op |-> "health", raised |-> raised,
                   status |-> IF raised = "" THEN HTTP_200_OK
                              ELSE HTTP_500_INTERNAL]
       /\ UNCHANGED <<use_in_memory_store, watchlist_vars, alert_vars,
                      preference_vars, deal_vars, device_vars, airport_vars,
                      database_url, supabase_jwt_secret, phase, pool>>

\* InMemoryProvider() / SupabaseProvider(): what calling the class raises
instantiate(cls) ==
    /\ phase # "stopped"
    /\ last' = [op |-> "instantiate", cls |-> cls, raised |-> Instantiate(cls)]
    /\ UNCHANGED <<use_in_memory_store, watchlist_vars, alert_vars,
                   preference_vars, deal_vars, device_vars, airport_vars,
                   startup_vars, pool>>

\* lifespan, up to its yield: only the Redis pool is set up; no setting is
\* read or checked
lifespan_startup ==
    /\ phase = "importing"
    /\ phase' = "serving"
    /\ last' = [op |-> "lifespan_startup"]
    /\ UNCHANGED <<use_in_memory_store, watchlist_vars, alert_vars,
                   preference_vars, deal_vars, device_vars, airport_vars,
                   database_url, supabase_jwt_secret, provider_cache, pool>>

\* lifespan, after its yield: provider = get_provider(), closed if it has close
lifespan_shutdown ==
    LET provided == get_provider
    IN /\ phase = "serving"
       /\ phase' = "stopped"
       /\ provider_cache' = provided.provider
       /\ pool' = IF provided.raised = ""
                     /\ Lookup(The(provided.provider), "close") = ""
                  THEN None ELSE pool
       /\ last' = [op |-> "lifespan_shutdown", raised |-> provided.raised]
       /\ UNCHANGED <<use_in_memory_store, watchlist_vars, alert_vars,
                      preference_vars, deal_vars, device_vars, airport_vars,
                      database_url, supabase_jwt_secret>>

\* A process being started with whatever the environment sets
InitStartup ==
    /\ InitStores
    /\ database_url \in {None, Some("postgresql://db")}
    /\ supabase_jwt_secret \in {None, Some("secret")}
    /\ service_account_api_key = None
    /\ phase = "importing"

NextStartup ==
  /\ UNCHANGED <<pool_vars, reader_vars, service_vars>>
  /\
    \/ lifespan_startup
    \/ \E r \in DOMAIN UserRoutes, c \in Credentials, u \in AuthUsers :
          authenticated_request(r, c, u)
    \/ health
    \/ \E cls \in ProviderClasses : instantiate(cls)
    \/ lifespan_shutdown

SpecStartup == InitStartup /\ [][NextStartup]_vars

\* ------------------------------------------------ alert reads, per query
\* list_alert_history of the relational backend at the grain of its two
\* statements: each is awaited on its own, outside any transaction, so
\* other requests' statements may run between them.

\* SELECT COUNT(*) AS total FROM alert_history WHERE user_id = $1
SupabaseProvider_count_alert_history(tbl, user_id) ==
    Cardinality({r \in tbl : r.user_id = user_id})

\* The first statement of a list_alert_history call has run: the call
\* holds its rows; history is the number of the user's alerts it read from.
\* One call is followed at a time
list_alert_history_slice(user_id, page, per_page) ==
    /\ readers = {}
    /\ \E r \in SupabaseProvider_list_alert_history(
                    tbl_alert_history, tbl_flight_deals, user_id, page,
                    per_page) :
          /\ r.raised = ""
          /\ readers' = readers \cup
                {[user |-> user_id, page |-> page, per_page |-> per_page,
                  rows |-> r.ret,
                  history |-> SupabaseProvider_count_alert_history(
                                  tbl_alert_history, user_id)]}
    /\ pool' = ensure_pool(pool)
    /\ last' = [op |-> "slice", user |-> user_id]
    /\ UNCHANGED <<use_in_memory_store, watchlist_vars, alert_vars,
                   preference_vars>>

\* The second statement of the call has run and the call returns
list_alert_history_count(reader) ==
    /\ reader \in readers
    /\ readers' = readers \ {reader}
    /\ last' = [op |-> "list_alert_history", user |-> reader.user,
                page |-> reader.page, per_page |-> reader.per_page,
                status |-> HTTP_200_OK, ret |-> reader.rows,
                total |-> SupabaseProvider_count_alert_history(
                              tbl_alert_history, reader.user),
                history |-> reader.history]
    /\ UNCHANGED <<use_in_memory_store, watchlist_vars, alert_vars,
                   preference_vars, pool>>

InitAlertReads == Init /\ ~use_in_memory_store

NextAlertReads ==
    \/ /\ UNCHANGED <<deal_vars, device_vars, airport_vars, startup_vars,
                      pool_vars, service_vars>>
       /\ \E u \in AuthUsers, p \in 1..2, k \in 1..2 :
             list_alert_history_slice(u, p, k)
    \/ /\ UNCHANGED <<deal_vars, device_vars, airport_vars, startup_vars,
                      pool_vars, service_vars>>
       /\ \E reader \in readers : list_alert_history_count(reader)
    \/ /\ UNCHANGED <<deal_vars, device_vars, airport_vars, startup_vars,
                      pool_vars, reader_vars, service_vars>>
       /\ \E u \in AuthUsers, a \in AlertValues : append_alert(u, a)

SpecAlertReads == InitAlertReads /\ [][NextAlertReads]_vars

\* ------------------------------------------------ updates with nulls
\* PUT bodies that carry a field with the JSON value null: every field of
\* WatchlistUpdate is Optional, so these pass request validation

NullBodies ==
    { [name |-> None],
      [origin |-> None, is_active |-> None, max_price |-> Some(700)] }

NextWatchlistNulls ==
  /\ UNCHANGED <<alert_vars, preference_vars, deal_vars, device_vars,
                 airport_vars, startup_vars, pool_vars, reader_vars,
                 service_vars>>
  /\
    \/ Tick
    \/ \E u \in AuthUsers : route_list_watchlists(u)
    \/ \E u \in AuthUsers, b \in CreateBodies : route_create_watchlist(u, b)
    \/ \E u \in AuthUsers, w \in WatchlistIds, b \in NullBodies :
          route_update_watchlist(u, w, b)
    \/ \E u \in AuthUsers, w \in WatchlistIds : route_delete_watchlist(u, w)

SpecWatchlistNulls == Init /\ [][NextWatchlistNulls]_vars

\* ------------------------------------------------ background refresh

\* The service-account key the settings may hold: none, empty, or a key
ServiceKeys == {None, Some(""), Some("key")}

\* The Authorization header a request may carry (None: no header)
AuthorizationHeaders ==
    {None, Some("Bearer key"), Some("Bearer other"), Some("Bearer "),
     Some("bearer key"), Some("key"), Some("Bearer key ")}

\* A prefix test that ignores case
StartsWithBearer_ignorecase(authorization) ==
    authorization \in {"Bearer key", "Bearer other", "Bearer ", "Bearer key ",
                       "bearer key"}

\* authorization.startswith("Bearer ")
StartsWithBearer(authorization) ==
    authorization \in {"Bearer key", "Bearer other", "Bearer ", "Bearer key "}

\* authorization[7:]
AfterBearer(authorization) ==
    CASE authorization = "Bearer key" -> "key"
      [] authorization = "Bearer other" -> "other"
      [] authorization = "Bearer " -> ""
      [] authorization = "Bearer key " -> "key "
      [] authorization = "bearer key" -> "key"
      [] OTHER -> ""

\* POST /v1/deals/background-refresh. The required header is checked before
\* the handler runs; the handler then checks the configured key, the header's
\* prefix and the token, and only then asks the provider for the deals
background_refresh(authorization) ==
    LET listed == IF use_in_memory_store
                  THEN {[raised |-> "",
                         ret |-> InMemoryProvider_list_deals(deals, None, 100)]}
                  ELSE SupabaseProvider_list_deals(tbl_flight_deals, None, 100)
        refused(code) ==
            /\ last' = [op |-> "background_refresh",
                        authorization |-> authorization, status |-> code,
                        provider_called |-> FALSE, body |-> None]
            /\ UNCHANGED pool
    IN /\ IF authorization = None
          THEN refused(HTTP_422_UNPROCESSABLE)
          ELSE IF service_account_api_key \in {None, Some("")}
          THEN refused(HTTP_501_NOT_IMPLEMENTED)
          ELSE IF ~StartsWithBearer(The(authorization))
          THEN refused(HTTP_401_UNAUTHORIZED)
          ELSE IF AfterBearer(The(authorization)) # The(service_account_api_key)
          THEN refused(HTTP_401_UNAUTHORIZED)
          ELSE /\ \E r \in listed :
                     last' = [op |-> "background_refresh",
                              authorization |-> authorization,
                              status |-> IF r.raised = "" THEN HTTP_200_OK
                                         ELSE HTTP_500_INTERNAL,
                              provider_called |-> TRUE,
                              body |-> IF r.raised # "" THEN None
                                       ELSE Some([status |-> "completed",
                                                  deal_count |-> Len(r.ret),
                                                  timestamp |-> now])]
               /\ pool' = IF use_in_memory_store THEN pool
                          ELSE ensure_pool(pool)
       /\ UNCHANGED <<use_in_memory_store, watchlist_vars, alert_vars,
                      preference_vars, deal_vars>>

\* A serving process whose settings may or may not hold a service key
InitRefresh ==
    /\ InitStores
    /\ database_url = IF use_in_memory_store THEN None
                      ELSE Some("postgresql://db")
    /\ supabase_jwt_secret = Some("secret")
    /\ service_account_api_key \in ServiceKeys
    /\ phase = "serving"

NextRefresh ==
  /\ UNCHANGED <<device_vars, airport_vars, startup_vars, pool_vars,
                 reader_vars, service_vars>>
  /\
    \/ \E h \in AuthorizationHeaders : background_refresh(h)
    \/ \E o \in {"LAX", "SFO"}, s \in {94, 80} : deal_ingested(o, s)

SpecRefresh == InitRefresh /\ [][NextRefresh]_vars

\* ------------------------------------------------ backends side by side
\* One provider of each class receives the same calls: the two start with
\* the same watchlist, a create draws the same id for both, and both read
\* the same clock. The request schemas have validated the payloads.

InitSideBySide ==
    /\ InitOtherStores
    /\ watchlists = <<SeedWatchlist(now)>>
    /\ tbl_watchlists = {SeedWatchlist(now)}
    /\ database_url = Some("postgresql://db")
    /\ supabase_jwt_secret = Some("secret")
    /\ service_account_api_key = None
    /\ phase = "serving"

\* What one backend answered: the exception and the value returned
Answer(r) == [raised |-> r.raised, ret |-> r.ret]

both_list_watchlists(user_id) ==
    /\ \E ret \in SupabaseProvider_list_watchlists(tbl_watchlists, user_id) :
          last' = [op |-> "list_watchlists", user |-> user_id, wid |-> 0,
                   im |-> [raised |-> "",
                           ret |-> InMemoryProvider_list_watchlists(
                                       watchlists, user_id)],
                   db |-> [raised |-> "", ret |-> ret]]
    /\ pool' = ensure_pool(pool)
    /\ UNCHANGED <<use_in_memory_store, now, ticks, next_uuid, updates,
                   watchlists, tbl_watchlists>>

both_create_watchlist(user_id, body) ==
    LET payload == WatchlistCreate(body)
        im == InMemoryProvider_create_watchlist(
                  watchlists, next_uuid, now, user_id, The(payload))
        db == SupabaseProvider_create_watchlist(
                  tbl_watchlists, next_uuid, now, user_id, The(payload))
    IN /\ payload # None
       /\ next_uuid <= MaxWatchlists
       /\ next_uuid' = next_uuid + 1
       /\ watchlists' = im.store
       /\ tbl_watchlists' = db.store
       /\ pool' = ensure_pool(pool)
       /\ last' = [op |-> "create_watchlist", user |-> user_id,
                   wid |-> next_uuid, im |-> Answer(im), db |-> Answer(db)]
       /\ UNCHANGED <<use_in_memory_store, now, ticks, updates>>

both_update_watchlist(user_id, watchlist_id, body) ==
    LET payload == WatchlistUpdate(body)
        im == InMemoryProvider_update_watchlist(
                  watchlists, now, user_id, watchlist_id, The(payload))
        db == SupabaseProvider_update_watchlist(
                  tbl_watchlists, now, user_id, watchlist_id, The(payload))
    IN /\ payload # None
       /\ (im.raised = "" \/ db.raised = "") => updates < MaxUpdates
       /\ updates' = IF im.raised = "" \/ db.raised = ""
                     THEN updates + 1 ELSE updates
       /\ watchlists' = im.store
       /\ tbl_watchlists' = db.store
       /\ pool' = ensure_pool(pool)
       /\ last' = [op |-> "update_watchlist", user |-> user_id,
                   wid |-> watchlist_id, im |-> Answer(im), db |-> Answer(db)]
       /\ UNCHANGED <<use_in_memory_store, now, ticks, next_uuid>>

both_delete_watchlist(user_id, watchlist_id) ==
    LET im == InMemoryProvider_delete_watchlist(
                  watchlists, user_id, watchlist_id)
        db == SupabaseProvider_delete_watchlist(
                  tbl_watchlists, user_id, watchlist_id)
    IN /\ watchlists' = im.store
       /\ tbl_watchlists' = db.store
       /\ pool' = ensure_pool(pool)
       /\ last' = [op |-> "delete_watchlist", user |-> user_id,
                   wid |-> watchlist_id, im |-> Answer(im), db |-> Answer(db)]
       /\ UNCHANGED <<use_in_memory_store, now, ticks, next_uuid, updates>>

NextSideBySide ==
  /\ UNCHANGED <<alert_vars, preference_vars, deal_vars, device_vars,
                 airport_vars, startup_vars, pool_vars, reader_vars,
                 service_vars>>
  /\
    \/ Tick
    \/ \E u \in AuthUsers : both_list_watchlists(u)
    \/ \E u \in AuthUsers, b \in CreateBodies : both_create_watchlist(u, b)
    \/ \E u \in AuthUsers, w \in WatchlistIds, b \in UpdateBodies :
          both_update_watchlist(u, w, b)
    \/ \E u \in AuthUsers, w \in WatchlistIds : both_delete_watchlist(u, w)

SpecSideBySide == InitSideBySide /\ [][NextSideBySide]_vars

\* ------------------------------------------------ connection pool
\* Provider calls at the grain of their awaits. A relational call awaits
\* _ensure_pool (which awaits asyncpg.create_pool when it finds no pool),
\* then pool.acquire(), then its statements inside the async-with scope.
\* Three operations stand for the provider's twelve: the two that raise
\* KeyError inside the scope and one that does not.

PoolOps == {"get_deal", "update_watchlist", "list_watchlists"}

\* How an operation can leave its acquisition scope
ScopeOutcomes(op) ==
    IF op \in {"get_deal", "update_watchlist"}
    THEN {"ok", "KeyError", "DBError"}
    ELSE {"ok", "DBError"}

\* Connections a call still holds once it has left `async with
\* pool.acquire() as conn` with the given outcome, when the scope forgets
\* to release on an exception
connections_after_scope_leaky(outcome) == IF outcome = "ok" THEN 0 ELSE 1

\* Connections a call still holds once it has left `async with
\* pool.acquire() as conn` with the given outcome
connections_after_scope(outcome) == 0

\* SupabaseProvider.close: the pools left open after closing the held one
SupabaseProvider_close(p, open) == open \ p

InFlight(c) == calls[c].pc \notin {"idle", "done"}

\* A request calls a provider operation. The in-memory operations have no
\* await and run to completion; a relational one runs _ensure_pool up to
\* its first await: it sees a pool and returns it, or sees none and starts
\* asyncpg.create_pool
call_start(c, op) ==
    /\ phase = "serving"
    /\ calls[c].pc = "idle"
    /\ calls' = [calls EXCEPT ![c] =
           IF use_in_memory_store
           THEN [pc |-> "done", op |-> op, pool |-> None, conn |-> 0,
                 outcome |-> "ok"]
           ELSE IF pool = None
           THEN [pc |-> "creating", op |-> op, pool |-> None, conn |-> 0,
                 outcome |-> ""]
           ELSE [pc |-> "acquire", op |-> op, pool |-> pool, conn |-> 0,
                 outcome |-> ""]]
    /\ last' = [op |-> "call_start", call |-> c]
    /\ UNCHANGED <<pool, pools_created, pools_open>>

\* asyncpg.create_pool returns to the call that awaited it: the new pool is
\* stored in self._pool and returned
create_pool_returns(c) ==
    /\ calls[c].pc = "creating"
    /\ pools_created' = pools_created + 1
    /\ pools_open' = pools_open \cup {pools_created'}
    /\ pool' = Some(pools_created')
    /\ calls' = [calls EXCEPT ![c].pc = "acquire", ![c].pool = pool']
    /\ last' = [op |-> "create_pool", call |-> c]

\* asyncpg.create_pool raises (the database is unreachable): the call
\* fails before it borrowed anything
create_pool_raises(c) ==
    /\ calls[c].pc = "creating"
    /\ calls' = [calls EXCEPT ![c].pc = "done", ![c].outcome = "DBError"]
    /\ last' = [op |-> "create_pool", call |-> c]
    /\ UNCHANGED <<pool, pools_created, pools_open>>

\* pool.acquire() hands the call a connection
pool_acquire(c) ==
    /\ calls[c].pc = "acquire"
    /\ calls' = [calls EXCEPT ![c].pc = "in_scope", ![c].conn = 1]
    /\ last' = [op |-> "acquire", call |-> c]
    /\ UNCHANGED <<pool, pools_created, pools_open>>

\* The call leaves the async-with scope, by return or by exception
exit_scope(c, outcome) ==
    /\ calls[c].pc = "in_scope"
    /\ outcome \in ScopeOutcomes(calls[c].op)
    /\ calls' = [calls EXCEPT ![c].pc = "done", ![c].outcome = outcome,
                              ![c].conn = connections_after_scope(outcome)]
    /\ last' = [op |-> "exit_scope", call |-> c]
    /\ UNCHANGED <<pool, pools_created, pools_open>>

\* The request that made the call has been answered
call_returns(c) ==
    /\ calls[c].pc = "done"
    /\ calls' = [calls EXCEPT ![c] = IdleCall]
    /\ last' = [op |-> "call_returns", call |-> c]
    /\ UNCHANGED <<pool, pools_created, pools_open>>

\* Orderly shutdown: the server has drained its requests, then lifespan
\* resumes after its yield and closes the provider if it has a close
shutdown ==
    /\ \A c \in Calls : ~InFlight(c)
    /\ lifespan_shutdown
    /\ pools_open' = IF last'.raised = ""
                        /\ Lookup(The(provider_cache'), "close") = ""
                     THEN SupabaseProvider_close(pool, pools_open)
                     ELSE pools_open
    /\ UNCHANGED <<calls, pools_created>>

NextPool ==
    \/ /\ UNCHANGED <<use_in_memory_store, watchlist_vars, alert_vars,
                      preference_vars, deal_vars, device_vars, airport_vars,
                      startup_vars, reader_vars, service_vars>>
       /\
          \/ \E c \in Calls, op \in PoolOps : call_start(c, op)
          \/ \E c \in Calls : create_pool_returns(c)
          \/ \E c \in Calls : create_pool_raises(c)
          \/ \E c \in Calls : pool_acquire(c)
          \/ \E c \in Calls, o \in {"ok", "KeyError", "DBError"} :
                exit_scope(c, o)
          \/ \E c \in Calls : call_returns(c)
    \/ shutdown /\ UNCHANGED <<reader_vars, service_vars>>

SpecPool == Init /\ [][NextPool]_vars

\* ============================================================== claims
\* Observations the claims are stated with.

Range(seq) == {seq[i] : i \in 1..Len(seq)}

\* The watchlists the active provider stores
Stored == IF use_in_memory_store THEN Range(watchlists) ELSE tbl_watchlists

StoredIds == {w.id : w \in Stored}

OwnedBy(ws, u) == {w \in ws : w.user_id = u}

\* Every result list_watchlists(u) may give in the current state
ListResults(u) ==
    IF use_in_memory_store
    THEN {InMemoryProvider_list_watchlists(watchlists, u)}
    ELSE SupabaseProvider_list_watchlists(tbl_watchlists, u)

\* C1: list_watchlists(U) returns exactly the stored watchlists whose user_id
\* is U, each once: no watchlist of another user (the seeded demo watchlist
\* included) is in the result.
C1_ListIsolation ==
    last.op = "list_watchlists" =>
        /\ Range(last.ret) = OwnedBy(Stored, last.user)
        /\ Len(last.ret) = Cardinality(OwnedBy(Stored, last.user))
        /\ \A i \in 1..Len(last.ret) : last.ret[i].user_id # DemoUser

\* A user listed while another authenticated user's watchlist and the demo
\* watchlist were stored.
C1_Witness ==
    /\ last.op = "list_watchlists"
    /\ \E w \in Stored : w.user_id \in AuthUsers \ {last.user}
    /\ \E w \in Stored : w.user_id = DemoUser

\* C2: an update_watchlist or delete_watchlist call by a user other than the
\* owner of W, whatever its target and payload, leaves W stored with every
\* field unchanged, and the owner's list results are what they were.
C2_ForeignWritesNoEffect ==
    [][\A w \in Stored :
          (last'.op \in {"update_watchlist", "delete_watchlist"}
             /\ last'.user # w.user_id)
          => /\ w \in Stored'
             /\ OwnedBy(Stored', w.user_id) = OwnedBy(Stored, w.user_id)
             /\ ListResults(w.user_id)' = ListResults(w.user_id)]_vars

\* A user sent a valid, non-empty update for a watchlist of another
\* authenticated user.
C2_Witness ==
    /\ last.op = "update_watchlist"
    /\ last.payload # None
    /\ The(last.payload).fields_set # {}
    /\ \E w \in Stored : w.id = last.wid /\ w.user_id \in AuthUsers \ {last.user}

C5_DeleteIdempotent ==
    [][last'.op = "delete_watchlist"
       => /\ last'.status = HTTP_204_NO_CONTENT
          /\ ~\E w \in Stored' : w.id = last'.wid /\ w.user_id = last'.user
          /\ (last.op = "delete_watchlist" /\ last.user = last'.user
                /\ last.wid = last'.wid)
             => (Stored' = Stored /\ last'.status = last.status)]_vars

\* A delete was answered for an id that had been created and is gone.
C5_Witness ==
    /\ last.op = "delete_watchlist"
    /\ last.status = HTTP_204_NO_CONTENT
    /\ last.wid # DemoWatchlistId
    /\ last.wid < next_uuid
    /\ last.wid \notin StoredIds

\* C6: after a successful update by the owner, each updatable field the
\* payload set has the payload's value and each field it did not set has the
\* value it had before, in the returned watchlist and in the stored one.
C6_PartialUpdate ==
    [][(last'.op = "update_watchlist" /\ last'.status = HTTP_200_OK)
       => \E old \in Stored, new \in Stored' :
            /\ old.id = last'.wid
            /\ new.id = last'.wid
            /\ last'.ret = {new}
            /\ \A f \in FieldSet(UpdatableFields) :
                 new[f] = IF f \in The(last'.payload).fields_set
                          THEN The(last'.payload).value[f]
                          ELSE old[f]]_vars

\* An owner's update that set max_price and is_active only succeeded.
C6_Witness ==
    /\ last.op = "update_watchlist"
    /\ last.status = HTTP_200_OK
    /\ The(last.payload).fields_set = {"max_price", "is_active"}
    /\ \E w \in Stored : w.id = last.wid /\ w.name = Some("Test")
                          /\ w.max_price = Some(700)

\* C7: create_watchlist(U, payload) returns and stores a watchlist owned by U
\* under an id no stored watchlist has, and U then has one watchlist more; a
\* stored id keeps its owner and leaves the store only by its owner's delete,
\* which takes exactly that watchlist from U's; an id once used never returns.
C7_CreateDeleteLifecycle ==
    [][/\ next_uuid' # next_uuid
          => \E w \in Stored' :
               /\ last'.op = "create_watchlist"
               /\ last'.ret = {w}
               /\ w.user_id = last'.user
               /\ w.id \notin StoredIds
               /\ Stored' = Stored \cup {w}
               /\ \A u \in AuthUsers :
                    w \in OwnedBy(Stored', u) <=> u = last'.user
       /\ \A w \in Stored :
            /\ \A x \in Stored' : x.id = w.id => x.user_id = w.user_id
            /\ w.id \notin StoredIds'
                 => /\ last'.op = "delete_watchlist"
                    /\ last'.user = w.user_id
                    /\ last'.wid = w.id
       /\ (last'.op = "delete_watchlist"
             /\ \E w \in Stored : w.id = last'.wid /\ w.user_id = last'.user)
          => /\ last'.wid \notin StoredIds'
             /\ Cardinality(OwnedBy(Stored', last'.user))
                  = Cardinality(OwnedBy(Stored, last'.user)) - 1
       /\ \A i \in 0..(next_uuid - 1) :
            i \notin StoredIds => i \notin StoredIds']_vars

\* The owner deleted the watchlist a create had made, and has none left.
C7_Witness ==
    /\ last.op = "delete_watchlist"
    /\ last.wid # DemoWatchlistId
    /\ last.wid < next_uuid
    /\ last.wid \notin StoredIds
    /\ OwnedBy(Stored, last.user) = {}
    /\ \E w \in Stored : w.user_id = DemoUser

\* The alerts stored for a user, whichever backend holds them
UserAlerts(u) ==
    IF use_in_memory_store
    THEN Range(GetOr(alerts, u, <<>>))
    ELSE {map_alert(r) : r \in {x \in tbl_alert_history : x.user_id = u}}

Min(a, b) == IF a < b THEN a ELSE b
Max(a, b) == IF a > b THEN a ELSE b

C9_AsStated ==
    (/\ last.op = "list_alert_history"
     /\ (last.page < 1 \/ last.per_page < 1 \/ last.per_page > 100)) =>
        /\ last.status = HTTP_422_UNPROCESSABLE
        /\ ~last.provider_called

\* C10: update_alert_preferences(u, P) immediately followed by
\* get_alert_preferences(u) returns P, for every user (with or without a
\* stored record or user row) on both backends.
C10_AsStated ==
    [][(/\ last.op = "update_alert_preferences"
        /\ last'.op = "get_alert_preferences"
        /\ last'.user = last.user) => last'.ret = last.prefs]_vars

\* The preferences get_alert_preferences reads for a user in this state
ReadPrefs(u) ==
    IF use_in_memory_store
    THEN InMemoryProvider_get_alert_preferences(alert_preferences, u).ret
    ELSE SupabaseProvider_get_alert_preferences(tbl_users, u).ret

\* C11: every user reads the defaults (enabled, quiet hours 22 to 7, not
\* watchlist-only) until preferences are stored for that user: the value read
\* for u changes only in an update_alert_preferences call made for u itself,
\* and a get returns the value read.
C11_DefaultsUntilOwnUpdate ==
    /\ \A u \in AuthUsers :
          ReadPrefs(u) = [enabled |-> TRUE, quiet_hours_enabled |-> TRUE,
                          quiet_hours_start |-> 22, quiet_hours_end |-> 7,
                          watchlist_only_mode |-> FALSE]
    /\ [][/\ \A u \in AuthUsers :
               ReadPrefs(u)' # ReadPrefs(u) =>
                   (last'.op = "update_alert_preferences" /\ last'.user = u)
          /\ last'.op = "get_alert_preferences" =>
               last'.ret = ReadPrefs(last'.user)]_vars

\* A user with nothing stored read the defaults while another user had
\* preferences stored that differ from the defaults.
C11_Witness ==
    /\ last.op = "get_alert_preferences"
    /\ last.ret = AlertPreferences
    /\ use_in_memory_store => last.user \notin DOMAIN alert_preferences
    /\ \E u2 \in AuthUsers \ {last.user} : ReadPrefs(u2) # AlertPreferences

\* What list_alert_history may return for a user in this state, for each
\* valid page and a per_page of 1 or 2
HistoryResults(u) ==
    [p \in 1..MaxPage, k \in {1, 2} |->
        IF use_in_memory_store
        THEN LET r == InMemoryProvider_list_alert_history(alerts, u, p, k)
             IN {<<r.ret, r.total>>}
        ELSE {<<r.ret, r.total>> :
                 r \in SupabaseProvider_list_alert_history(
                           tbl_alert_history, tbl_flight_deals, u, p, k)}]

\* C12: alert history is partitioned by user. A freshly authenticated user
\* gets an empty list and total 0 although the demo alert is stored; an
\* append_alert for one user changes neither the slice nor the total any other
\* user may be returned; listing stores nothing; and a list holds only alerts
\* stored for the caller, never the demo alert.
C12_AlertPartition ==
    /\ \A u \in AuthUsers : \A p \in 1..MaxPage, k \in {1, 2} :
          HistoryResults(u)[p, k] = {<< <<>>, 0 >>}
    /\ [][/\ last'.op = "append_alert" =>
               \A u \in AuthUsers : u # last'.user =>
                   HistoryResults(u)' = HistoryResults(u)
          /\ last'.op = "list_alert_history" =>
               /\ UNCHANGED alert_vars
               /\ \A u \in AuthUsers : u = last'.user =>
                      \A i \in 1..Len(last'.ret) :
                          /\ last'.ret[i] \in UserAlerts(u)'
                          /\ last'.ret[i].id # DemoAlertId]_vars

\* A user with no alert appended listed page 1 and got nothing and total 0,
\* while another user had alerts and the demo alert was stored.
C12_Witness ==
    /\ last.op = "list_alert_history"
    /\ last.page = 1 /\ last.per_page >= 1
    /\ last.ret = <<>> /\ last.total = 0
    /\ \E u2 \in AuthUsers \ {last.user} : Cardinality(UserAlerts(u2)) >= 2
    /\ UserAlerts(DemoUser) # {}

\* The deals stored, whichever backend holds them
StoredDeals == IF use_in_memory_store THEN Range(deals) ELSE tbl_flight_deals

\* What C13 requires of a returned list, given the deals that pass the filter
RankedPrefix(ret, passing, limit) ==
    /\ Len(ret) = Min(limit, Cardinality(passing))
    /\ \A i \in 1..Len(ret) : ret[i] \in passing
    /\ \A i, j \in 1..Len(ret) : i < j =>
          ret[i] # ret[j] /\ ret[i].deal_score >= ret[j].deal_score
    /\ \A d \in passing \ Range(ret) :
          \A i \in 1..Len(ret) : ret[i].deal_score >= d.deal_score

\* C13 as stated: with 1 <= limit <= 100 the deals returned are the
\* highest-scored deals that pass the filter, in non-increasing deal_score
\* order and at most limit of them, where whenever an origin is given the
\* deals that pass are those whose origin equals the upper-cased filter.
C13_AsStated ==
    (last.op = "list_deals" /\ limit_valid(last.limit)) =>
        /\ last.status = HTTP_200_OK
        /\ RankedPrefix(last.ret,
                        IF last.origin # None
                        THEN {d \in StoredDeals :
                                 d.origin = Upper(The(last.origin))}
                        ELSE StoredDeals,
                        last.limit)

\* C13: the same, where the deals that pass are those whose origin equals the
\* upper-cased filter when a non-empty origin is given, and every stored deal
\* when the origin is absent or the empty string.
C13_RankedFilteredTruncated ==
    (last.op = "list_deals" /\ limit_valid(last.limit)) =>
        /\ last.status = HTTP_200_OK
        /\ RankedPrefix(last.ret,
                        IF last.origin \notin {None, Some("")}
                        THEN {d \in StoredDeals :
                                 d.origin = Upper(The(last.origin))}
                        ELSE StoredDeals,
                        last.limit)

\* A list filtered by a lower-case origin returned two deals of different
\* score, leaving out a deal of that origin and a deal of another origin.
C13_Witness ==
    /\ last.op = "list_deals"
    /\ last.origin = Some("lax")
    /\ last.limit = 2
    /\ Len(last.ret) = 2
    /\ last.ret[1].deal_score > last.ret[2].deal_score
    /\ \E d \in StoredDeals \ Range(last.ret) : d.origin = "LAX"
    /\ \E d \in StoredDeals : d.origin # "LAX"

\* C14: GET /v1/deals/{id} answers 200 with the stored deal of that id when
\* one is stored and 404 when none is, and every deal a list returns is
\* stored, so its id resolves to 200 with the same id.
C14_GetDeal ==
    /\ \A id \in DealIds :
          IF \E d \in StoredDeals : d.id = id
          THEN /\ get_deal_response(id).status = HTTP_200_OK
               /\ get_deal_response(id).ret \subseteq StoredDeals
               /\ The(get_deal_response(id).ret).id = id
          ELSE /\ get_deal_response(id).status = HTTP_404_NOT_FOUND
               /\ get_deal_response(id).ret = None
    /\ last.op = "get_deal" =>
          /\ last.status = get_deal_response(last.deal_id).status
          /\ last.ret = get_deal_response(last.deal_id).ret
    /\ (last.op = "list_deals" /\ last.status = HTTP_200_OK) =>
          \A i \in 1..Len(last.ret) :
              /\ last.ret[i].id \in DealIds
              /\ get_deal_response(last.ret[i].id).status = HTTP_200_OK
              /\ The(get_deal_response(last.ret[i].id).ret).id = last.ret[i].id

\* A deal was fetched by id while other deals were stored and some id had no
\* deal, which is answered 404.
C14_Witness ==
    /\ last.op = "get_deal"
    /\ last.status = HTTP_200_OK
    /\ The(last.ret).id = last.deal_id
    /\ Cardinality(StoredDeals) >= 2
    /\ \E id \in DealIds : get_deal_response(id).status = HTTP_404_NOT_FOUND

\* The registrations stored for a (user, device) pair: the token and, where
\* the backend keeps one, the platform
RegistrationsFor(u, d) ==
    IF use_in_memory_store
    THEN IF u \in DOMAIN device_tokens /\ d \in DOMAIN device_tokens[u]
         THEN {[token |-> device_tokens[u][d], platform |-> None]}
         ELSE {}
    ELSE {[token |-> r.apns_token, platform |-> Some(r.platform)] :
            r \in {x \in tbl_device_registrations :
                      x.user_id = u /\ x.device_id = d}}

\* C15: after register_device_token(u, d, t, p) there is exactly one
\* registration for (u, d), holding token t and platform p, and the
\* registrations of every other (user, device) pair are unchanged.
C15_AsStated ==
    [][(last'.op = "register_device" /\ last'.provider_called) =>
          \A u \in AuthUsers, d \in {"d1", "d2"} :
              IF u = last'.user /\ d = last'.body.device_id
              THEN RegistrationsFor(u, d)' =
                      {[token |-> last'.body.token,
                        platform |-> Some(last'.body.platform)]}
              ELSE RegistrationsFor(u, d)' = RegistrationsFor(u, d)]_vars

\* C16: a well-formed POST /v1/alerts/register by an authenticated user stores
\* the token under that user and is answered 201 with a body of the declared
\* shape that reports the registration and the device id.
C16_AsStated ==
    (last.op = "register_device" /\ DeviceRegistrationRequest(last.body) # None)
        =>
        /\ \E reg \in RegistrationsFor(last.user, last.body.device_id) :
              reg.token = last.body.token
        /\ last.status = HTTP_201_CREATED
        /\ last.response # None
        /\ The(last.response).device_id = last.body.device_id

\* The preferred-airport list stored for a user, if any
StoredAirports(u) ==
    IF use_in_memory_store
    THEN IF u \in DOMAIN preferred_airports
         THEN Some(preferred_airports[u]) ELSE None
    ELSE IF u \in DOMAIN tbl_users
         THEN Some(tbl_users[u].preferred_airports) ELSE None

\* C18: after update_preferred_airports(u, list) the list stored for u is
\* exactly the payload's entries, in order, with each IATA code upper-cased,
\* whatever was stored before, and no other user's list has changed.
C18_AsStated ==
    [][(last'.op = "update_preferred_airports" /\ last'.provider_called) =>
          \A u \in AuthUsers :
              IF u = last'.user
              THEN StoredAirports(u)' =
                      Some([i \in 1..Len(last'.body) |->
                              [iata |-> Upper(last'.body[i].iata),
                               weight |-> last'.body[i].weight]])
              ELSE StoredAirports(u)' = StoredAirports(u)]_vars

\* C17: each backend can be constructed, and GET /health is served without
\* failing on an operation the provider lacks.
C17_AsStated ==
    /\ last.op = "instantiate" => last.raised = ""
    /\ last.op = "health" => last.raised # "AttributeError"

\* The bearer token of a request is one get_current_user_id accepts: signed
\* with the configured secret, with a sub that is a UUID
TokenAccepted(credentials) ==
    /\ credentials # None
    /\ supabase_jwt_secret # None
    /\ The(credentials).key = The(supabase_jwt_secret)
    /\ The(credentials).sub # None
    /\ The(The(credentials).sub) \in AuthUsers

C20_AsStated ==
    phase = "serving" =>
        /\ ~use_in_memory_store => database_url # None
        /\ supabase_jwt_secret # None

\* The totals list_alert_history may return for a user in this state
AlertTotals(u) ==
    IF use_in_memory_store
    THEN {InMemoryProvider_list_alert_history(alerts, u, 1, 1).total}
    ELSE {r.total : r \in SupabaseProvider_list_alert_history(
                              tbl_alert_history, tbl_flight_deals, u, 1, 1)}

\* C21: alert history is append-only. Listing changes nothing stored; an
\* append_alert(u, a) that succeeds takes u's total from n to n + 1 and keeps
\* every alert stored before; one that fails changes no total; and no step
\* changes the total of any other user, so no total ever decreases.
C21_AppendOnly ==
    [][/\ last'.op = "list_alert_history" => UNCHANGED alert_vars
       /\ last'.op = "append_alert" =>
             \A u \in AuthUsers \cup {DemoUser} :
                 /\ UserAlerts(u) \subseteq UserAlerts(u)'
                 /\ AlertTotals(u)' =
                       IF u = last'.user /\ last'.raised = ""
                       THEN {n + 1 : n \in AlertTotals(u)}
                       ELSE AlertTotals(u)]_vars

\* An alert was appended for a user who already had one, taking the total to
\* at least 2, while another user had alerts too.
C21_Witness ==
    /\ last.op = "append_alert"
    /\ last.raised = ""
    /\ \E n \in AlertTotals(last.user) : n >= 2
    /\ last.alert \in UserAlerts(last.user)
    /\ \E u2 \in AuthUsers \ {last.user} : UserAlerts(u2) # {}

\* ---------------------------------------------------------------- C22
\* C22 as the claim states it: whatever the interleaving of concurrent
\* calls on one provider, at most one pool is created before close(), and
\* all calls that have a pool have the same one.
C22_AsStated ==
    /\ pools_created <= 1
    /\ \A c, d \in Calls :
          calls[c].pool # None /\ calls[d].pool # None
             => calls[c].pool = calls[d].pool

\* ---------------------------------------------------------------- C23
\* C23: a relational call that has completed, by return, by KeyError
\* raised inside the acquisition scope or by a database error, holds no
\* connection; so the connections borrowed are never more than the calls
\* in flight.
Borrowed == Cardinality({c \in Calls : calls[c].conn > 0})

C24_AsStated ==
    phase = "stopped"
       => /\ pools_open = {}
          /\ pool = None
          /\ last.op = "lifespan_shutdown" => last.raised = ""

\* ---------------------------------------------------------------- C25
\* C25: in the relational backend an update whose payload sets no
\* allow-listed field writes nothing, updated_at included, and returns the
\* caller's own watchlist if there is one under the id and NotFound
\* otherwise; an update that sets fields assigns to the matched row exactly
\* the payload's value for each field it set and the time of the call to
\* updated_at, matches the row by the id and the caller, and leaves every
\* other column and every other row as it was.
C25_RelationalUpdate ==
    [][(/\ ~use_in_memory_store
        /\ now' = now
        /\ last'.op = "update_watchlist"
        /\ last'.payload # None)
       => LET p == The(last'.payload)
              own == {r \in tbl_watchlists :
                        r.id = last'.wid /\ r.user_id = last'.user}
          IN IF p.fields_set \cap ALLOWED_COLUMNS = {}
             THEN /\ tbl_watchlists' = tbl_watchlists
                  /\ last'.status = IF own = {} THEN HTTP_404_NOT_FOUND
                                    ELSE HTTP_200_OK
                  /\ last'.ret = own
             ELSE IF last'.status = HTTP_200_OK
             THEN \E r \in own :
                    LET w == [f \in DOMAIN r |->
                                IF f \in p.fields_set THEN p.value[f]
                                ELSE IF f = "updated_at" THEN now
                                ELSE r[f]]
                    IN /\ own = {r}
                       /\ p.fields_set \subseteq ALLOWED_COLUMNS
                       /\ last'.ret = {w}
                       /\ tbl_watchlists' = (tbl_watchlists \ {r}) \cup {w}
             ELSE tbl_watchlists' = tbl_watchlists]_vars

\* The owner's update with an empty payload was answered 200 at a time
\* later than the watchlist's updated_at, which is still stored unchanged.
C25_Witness ==
    /\ ~use_in_memory_store
    /\ last.op = "update_watchlist"
    /\ last.payload # None
    /\ The(last.payload).fields_set = {}
    /\ last.status = HTTP_200_OK
    /\ \E r \in tbl_watchlists :
          r.id = last.wid /\ last.ret = {r} /\ r.updated_at < now

\* ---------------------------------------------------------------- C26
\* C26 as the claim states it: given the same call, the two backends both
\* succeed or both raise NotFound, return the same watchlists in the same
\* order with the same field values, and an update refreshes updated_at in
\* one exactly when it does in the other, so the two stores hold the same
\* watchlists after every call.
C26_AsStated ==
    [][(now' = now /\ last'.op # "none")
       => /\ last'.im.raised = last'.db.raised
          /\ last'.im.raised \in {"", "KeyError"}
          /\ last'.im.ret = last'.db.ret
          /\ Range(watchlists') = tbl_watchlists']_vars

C28_AsStated ==
    use_in_memory_store
       => \A i \in 1..Len(watchlists) :
            LET w == watchlists[i]
            IN /\ w.name # None
               /\ w.origin # None
               /\ MatchesIata(The(w.origin))
               /\ w.destination # None
               /\ MatchesIataOrAny(The(w.destination))
               /\ w.is_active \in {Some(TRUE), Some(FALSE)}

\* ---------------------------------------------------------------- C29
\* C29: no step changes the id, the user_id or the created_at of a stored
\* watchlist, whatever the payload of an update; the stored watchlists have
\* distinct ids (in memory, one entry per id); and a successful update
\* returns the watchlist under the id it was given, owned by the caller,
\* with updated_at no earlier than before.
C29_IdentityKept ==
    [][/\ \A old \in Stored, new \in Stored' :
             old.id = new.id
                => /\ new.user_id = old.user_id
                   /\ new.created_at = old.created_at
                   /\ new.updated_at >= old.updated_at
       /\ \A a, b \in Stored' : a.id = b.id => a = b
       /\ use_in_memory_store => Len(watchlists') = Cardinality(Stored')
       /\ (last'.op = "update_watchlist" /\ last'.status = HTTP_200_OK)
             => \E old \in Stored, new \in Stored' :
                   /\ last'.ret = {new}
                   /\ new.id = last'.wid
                   /\ old.id = last'.wid
                   /\ new.user_id = last'.user
                   /\ StoredIds' = StoredIds]_vars

\* A successful update that set fields was answered for a watchlist
\* created at an earlier time than the update, while another user's
\* watchlist is stored.
C29_Witness ==
    /\ last.op = "update_watchlist"
    /\ last.status = HTTP_200_OK
    /\ The(last.payload).fields_set # {}
    /\ \E w \in Stored :
          /\ w.id = last.wid
          /\ w.user_id = last.user
          /\ w.updated_at > w.created_at
    /\ \E w \in Stored : w.user_id # last.user

\* ---------------------------------------------------------------- C30
\* C30 as the claim states it: the total a relational list_alert_history
\* call returns is the number of the user's alerts at the moment its slice
\* was read, whatever append_alert calls ran while it was in progress.
C30_AsStated ==
    last.op = "list_alert_history" => last.total = last.history

====
